---- MODULE Spec2Model ----
(***************************************************************************)
(* Model of the polkagodot backend: the GameManager contract as the event  *)
(* source, the SQLite cache (GameDatabase) and the synchronizer of the     *)
(* server (syncHistoricalGames, syncGameFromEvent, updatePlayerStats, the  *)
(* live listeners) together with the read handlers of the query service   *)
(* (GET /game/:gameId, /player/:address/stats, /leaderboard, /db/info),    *)
(* the serving layer in front of the admin endpoints (rateLimit,           *)
(* sanitizeInput, adminAuth, ipWhitelist), the HatNFT and GameManager      *)
(* contracts with the automatic unequip on transfer, the RewardsManager    *)
(* contract and the handler of POST /admin/submit-game with its automatic  *)
(* rewards.                                                                *)
(*                                                                         *)
(* A step of an async function is the code between two awaits.  An RPC     *)
(* read returns the chain value at the step that resumes the caller.       *)
(***************************************************************************)
EXTENDS Integers, Sequences, FiniteSets, TLC

\* ---------------------------------------------------------------- bounds
MaxGames == 2        \* games submitted on chain
MaxBlocks == 3       \* transactions (one per block) mined on chain
MaxToggles == 1      \* toggleScoreOrdering transactions
MaxEquips == 1       \* equipHat transactions
MaxFaults == 1       \* storage faults and RPC failures injected
MaxRestarts == 1     \* process restarts
MaxDeliveries == 2   \* events delivered by the live listener
MaxInv == 2          \* syncGameFromEvent invocations in flight
MaxRankPlayers == 3  \* players of a payload in the ranking specification
MaxQueries == 1      \* requests to the query service
MaxLimit == 2        \* limit of GET /leaderboard
MaxWins == 2         \* wins of a player in the leaderboard specification
MaxTokens == 2       \* hats minted
MaxTxs == 5          \* transactions sent to the contracts in their specification
MaxRequests == 3     \* requests to the serving layer
MaxAdminRequests == 1  \* of them to the admin endpoints
MaxTime == 3         \* milliseconds the clock of the serving layer moves on
RATE_LIMIT_REQUESTS == 1   \* requests admitted per window
RATE_LIMIT_WINDOW_MS == 2  \* length of the window
MaxBalance == 200     \* balance of RewardsManager
MaxReverts == 1       \* reverted submitGameResult transactions
MaxSubmits == 2       \* POST /admin/submit-game requests in flight

\* --------------------------------------------------------------- inputs
Players == {"A", "B"}
Scores == {50, 100, 150}
HatTokens == {1}
Slots == 1..MaxInv

\* Payloads of submitGameResult drawn by the synchronizer specifications:
\* two players with distinct scores, and one of them alone.
Payloads ==
    { [players |-> <<"A", "B">>, scores |-> <<50, 100>>],
      [players |-> <<"A">>, scores |-> <<100>>] }

\* ------------------------------------------------------------ variables
VARIABLES
    isDescendingOrder,  \* GameManager.isDescendingOrder
    currentGameId,      \* GameManager.currentGameId
    playerStats,        \* GameManager.playerStats
    chainEvents,        \* GameSubmitted events emitted, in order
    blockNumber,        \* height of the latest block
    games,              \* table games, rows in insertion order
    game_participants,  \* table game_participants, rows in insertion order
    player_stats,       \* table player_stats, keyed by player_address
    sync_state,         \* table sync_state, the row with id = 1
    phase,              \* "DOWN", "CATCHING_UP", "LIVE"
    catchup,            \* locals of syncHistoricalGames
    inv,                \* locals of each syncGameFromEvent invocation
    listenFrom,         \* first block the live listeners report
    orderingEvents,     \* ScoreOrderingChanged events awaiting the listener
    budget,             \* what the environment may still do
    history,            \* what has happened, for the properties only
    query,              \* locals of the GET /game/:gameId request in flight
    responses,          \* the fallback responses sent, by game id
    answers,            \* the responses of the other reads, by address or path
    rk,                 \* input and output of the ranking specification
    hatNFT,             \* HatNFT: ownerOf, _nextTokenId, gameManager
    http,               \* the serving layer: rateLimitMap, the clock, what was sent
    rewardsManager,     \* RewardsManager: configuration, stored results, claims, balance
    submit              \* the POST /admin/submit-game requests in flight

chainVars == <<isDescendingOrder, currentGameId, playerStats, chainEvents, blockNumber>>
dbVars == <<games, game_participants, player_stats, sync_state>>
srvVars == <<phase, catchup, inv, listenFrom, orderingEvents>>
qVars == <<query, responses, answers>>
others == <<rk, hatNFT, http, rewardsManager, submit>>
aux == <<history, qVars, others>>
vars == <<chainVars, dbVars, srvVars, budget, aux>>

\* ------------------------------------------------------ option values
None == <<>>
Some(v) == <<v>>

\* ======================================================================
\* GameManager (the event source)
\* ======================================================================

\* hatNFT.ownerOf: the hat tokens of this model belong to player A
ownerOf(tokenId) == "A"

InitialStats == [bestScore |-> 0, totalWins |-> 0, equippedHat |-> 0, hasPlayed |-> FALSE]

\* a comparison that also takes an equal score for a better one
isBetter_OrEqual(score, winnerScore, desc) ==
    IF desc THEN score >= winnerScore ELSE score <= winnerScore

\* bool isBetter = isDescendingOrder ? scores[i] > winnerScore : ...
isBetter(score, winnerScore, desc) ==
    IF desc THEN score > winnerScore ELSE score < winnerScore

\* the winner loop of submitGameResult: index of the winning entry
RECURSIVE WinnerIndex(_, _, _, _)
WinnerIndex(scores, desc, i, w) ==
    IF i > Len(scores) THEN w
    ELSE WinnerIndex(scores, desc, i + 1, IF isBetter(scores[i], scores[w], desc) THEN i ELSE w)

\* an update that treats a first game like any other
StatsEntry_NoFirstGame(s, score, isWinner, desc) ==
    LET isNewBest == IF desc THEN score > s.bestScore ELSE score < s.bestScore
        best == IF isNewBest THEN score ELSE s.bestScore
        wins == IF isWinner THEN s.totalWins + 1 ELSE s.totalWins
    IN  [s EXCEPT !.hasPlayed = TRUE, !.bestScore = best, !.totalWins = wins]

\* one turn of the stats loop of submitGameResult: the stats of the player
\* after the entry
StatsEntry(s, score, isWinner, desc) ==
    LET isNewBest == IF desc THEN score > s.bestScore ELSE score < s.bestScore
        best == IF ~s.hasPlayed \/ isNewBest THEN score ELSE s.bestScore
        wins == IF isWinner THEN s.totalWins + 1 ELSE s.totalWins
    IN  [s EXCEPT !.hasPlayed = TRUE, !.bestScore = best, !.totalWins = wins]

\* the stats loop of submitGameResult, entries i..Len(players)
RECURSIVE FoldStats(_, _, _, _, _, _)
FoldStats(stats, players, scores, winner, desc, i) ==
    IF i > Len(players) THEN stats
    ELSE LET p == players[i]
             s2 == StatsEntry(stats[p], scores[i], p = winner, desc)
         IN  FoldStats([stats EXCEPT ![p] = s2], players, scores, winner, desc, i + 1)

\* a transaction is mined in a block of its own
CanMine == blockNumber < MaxBlocks

submitGameResult(pl) ==
    /\ CanMine
    /\ currentGameId <= MaxGames
    /\ Len(pl.players) = Len(pl.scores)
    /\ Len(pl.players) > 0 /\ Len(pl.players) <= 7
    /\ LET winner == pl.players[WinnerIndex(pl.scores, isDescendingOrder, 2, 1)]
           ev == [gameId |-> currentGameId, winner |-> winner,
                  playerCount |-> Len(pl.players), players |-> pl.players,
                  scores |-> pl.scores, blockNumber |-> blockNumber + 1,
                  transactionHash |-> blockNumber + 1]
       IN  /\ playerStats' = FoldStats(playerStats, pl.players, pl.scores, winner,
                                       isDescendingOrder, 1)
           /\ chainEvents' = Append(chainEvents, ev)
    /\ currentGameId' = currentGameId + 1
    /\ blockNumber' = blockNumber + 1
    /\ UNCHANGED <<isDescendingOrder, dbVars, srvVars, budget, aux>>

toggleScoreOrdering ==
    /\ CanMine
    /\ budget.toggles > 0
    /\ isDescendingOrder' = ~isDescendingOrder
    /\ blockNumber' = blockNumber + 1
    /\ budget' = [budget EXCEPT !.toggles = @ - 1]
    \* the event reaches the listener only when one is registered
    /\ orderingEvents' = IF phase = "LIVE" THEN orderingEvents + 1 ELSE orderingEvents
    /\ UNCHANGED <<currentGameId, playerStats, chainEvents, dbVars, phase, catchup, inv,
                   listenFrom, aux>>

equipHat(sender, tokenId) ==
    /\ CanMine
    /\ budget.equips > 0
    /\ tokenId # 0 => ownerOf(tokenId) = sender
    /\ playerStats[sender].equippedHat # tokenId
    /\ playerStats' = [playerStats EXCEPT ![sender].equippedHat = tokenId]
    /\ blockNumber' = blockNumber + 1
    /\ budget' = [budget EXCEPT !.equips = @ - 1]
    /\ UNCHANGED <<isDescendingOrder, currentGameId, chainEvents, dbVars, srvVars, aux>>

\* ======================================================================
\* GameDatabase (the cache store)
\* ======================================================================

gameExists(gameId) == \E n \in 1..Len(games) : games[n].game_id = gameId

\* insertGame on a table without its keys: a plain insert
insertGame_NoKeys(rows, gameData) ==
    Append(rows, [game_id |-> gameData.gameId,
                  block_number |-> gameData.blockNumber,
                  transaction_hash |-> gameData.transactionHash,
                  winner_address |-> gameData.winner,
                  player_count |-> gameData.playerCount,
                  is_descending_order |-> IF gameData.isDescendingOrder THEN 1 ELSE 0])

\* INSERT OR REPLACE INTO games: game_id is the PRIMARY KEY and
\* transaction_hash is UNIQUE, so the rows in conflict are deleted first.
insertGame(rows, gameData) ==
    LET row == [game_id |-> gameData.gameId,
                block_number |-> gameData.blockNumber,
                transaction_hash |-> gameData.transactionHash,
                winner_address |-> gameData.winner,
                player_count |-> gameData.playerCount,
                is_descending_order |-> IF gameData.isDescendingOrder THEN 1 ELSE 0]
        kept == SelectSeq(rows, LAMBDA r : /\ r.game_id # row.game_id
                                           /\ r.transaction_hash # row.transaction_hash)
    IN  Append(kept, row)

\* INSERT OR REPLACE INTO game_participants: the only key is the
\* AUTOINCREMENT id, which the statement never supplies, so no row is ever
\* in conflict and the statement always adds a row.
insertGameParticipant(rows, participantData) ==
    Append(rows, [id |-> Len(rows) + 1,
                  game_id |-> participantData.gameId,
                  player_address |-> participantData.playerAddress,
                  score |-> participantData.score,
                  position |-> participantData.position,
                  equipped_hat_id |-> participantData.equippedHatId,
                  hat_type |-> participantData.hatType])

\* INSERT ... ON CONFLICT(player_address) DO UPDATE
upsertPlayerStats(table, statsData) ==
    LET row == [best_score |-> statsData.bestScore,
                total_wins |-> statsData.totalWins,
                total_games |-> statsData.totalGames,
                current_equipped_hat |-> statsData.currentEquippedHat,
                has_played |-> IF statsData.hasPlayed THEN 1 ELSE 0]
    IN  [a \in DOMAIN table \cup {statsData.playerAddress} |->
            IF a = statsData.playerAddress THEN row ELSE table[a]]

\* a history of the games the player has won
getPlayerGameHistory_Won(playerAddress) ==
    SelectSeq(game_participants,
              LAMBDA r : r.player_address = playerAddress /\ r.position = 1)

\* game_participants JOIN games ... WHERE player_address = ?
getPlayerGameHistory(playerAddress) ==
    SelectSeq(game_participants,
              LAMBDA r : r.player_address = playerAddress /\ gameExists(r.game_id))

\* an update that stores the distance from the checkpoint before it
updateSyncState_Delta(lastBlock, lastGameId) ==
    [last_synced_block |-> lastBlock - sync_state.last_synced_block,
     last_synced_game_id |-> lastGameId - sync_state.last_synced_game_id]

\* UPDATE sync_state SET last_synced_block = ?, last_synced_game_id = ?
updateSyncState(lastBlock, lastGameId) ==
    [last_synced_block |-> lastBlock, last_synced_game_id |-> lastGameId]

\* rows of game_participants of one game, in insertion order
ParticipantsOf(gameId) == SelectSeq(game_participants, LAMBDA r : r.game_id = gameId)

GameRows(gameId) == SelectSeq(games, LAMBDA r : r.game_id = gameId)

\* ======================================================================
\* Ranking (syncGameFromEvent and the fallback of GET /game/:gameId)
\* ======================================================================

\* the entries { address, score } built from the first playerCount entries
EventPlayers(ev) ==
    [n \in 1..ev.playerCount |-> [address |-> ev.players[n], score |-> ev.scores[n]]]

\* a comparator with the two modes exchanged
compare_Exchanged(a, b, desc) == IF desc THEN a.score - b.score ELSE b.score - a.score

\* the comparator of players.sort: negative when a sorts before b
compare(a, b, desc) == IF desc THEN b.score - a.score ELSE a.score - b.score

\* Array.prototype.sort is stable: an entry is placed after every entry that
\* precedes it in the input and does not compare greater than it.
RECURSIVE InsertStable(_, _, _)
InsertStable(sorted, x, desc) ==
    IF sorted = <<>> THEN <<x>>
    ELSE LET last == sorted[Len(sorted)]
         IN  IF compare(last, x, desc) > 0
             THEN Append(InsertStable(SubSeq(sorted, 1, Len(sorted) - 1), x, desc), last)
             ELSE Append(sorted, x)

RECURSIVE SortFrom(_, _, _, _)
SortFrom(entries, desc, n, acc) ==
    IF n > Len(entries) THEN acc
    ELSE SortFrom(entries, desc, n + 1, InsertStable(acc, entries[n], desc))

sortPlayers(entries, desc) == SortFrom(entries, desc, 1, <<>>)

\* the 0-based loop index taken as the position
position_ZeroBased(i) == i

\* position: i + 1, for the 0-based loop index i
position(i) == i + 1

\* ======================================================================
\* The synchronizer: syncGameFromEvent and updatePlayerStats
\* ======================================================================

FreeInv == [pc |-> "free", src |-> "none", gameId |-> 0, dir |-> FALSE, players |-> <<>>,
            i |-> 0, hat |-> 0, stats |-> InitialStats, wroteGame |-> FALSE,
            result |-> "none", arrival |-> 0]

\* the place of a live event among the events the listener was handed
Arrival(src) == IF src = "live" THEN MaxDeliveries - budget.deliveries + 1 ELSE 0

\* an invocation that has returned: only what it did is kept
Returned(r, result) ==
    [FreeInv EXCEPT !.pc = "done", !.src = r.src, !.gameId = r.gameId,
                    !.wroteGame = r.wroteGame, !.result = result]

Idle(k) == inv[k].pc \in {"free", "done"}

UseFault(b) == [b EXCEPT !.faults = @ - 1]

\* an invocation without the gameExists check
syncGameFromEvent_NoGuard(k, ev, src) ==
    inv' = [inv EXCEPT ![k] = [FreeInv EXCEPT !.pc = "awaitDir", !.src = src,
                                              !.gameId = ev.gameId,
                                              !.arrival = Arrival(src)]]

\* syncGameFromEvent up to its first await, run in slot k: the gameExists
\* check returns at once, otherwise the call suspends at isDescendingOrder()
syncGameFromEvent(k, ev, src) ==
    IF gameExists(ev.gameId)
    THEN inv' = inv
    ELSE inv' = [inv EXCEPT ![k] = [FreeInv EXCEPT !.pc = "awaitDir", !.src = src,
                                                   !.gameId = ev.gameId,
                                                   !.arrival = Arrival(src)]]

\* isDescendingOrder() has answered: insertGame, then build and sort players
SyncInsertGame(k) ==
    /\ inv[k].pc = "awaitDir"
    /\ LET ev == chainEvents[inv[k].gameId]
       IN  \/ \* the call rejects or insertGame throws: caught, nothing written
              /\ budget.faults > 0
              /\ budget' = UseFault(budget)
              /\ inv' = [inv EXCEPT ![k] = Returned(@, "failed")]
              /\ UNCHANGED games
           \/ /\ games' = insertGame(games,
                     [gameId |-> ev.gameId, blockNumber |-> ev.blockNumber,
                      transactionHash |-> ev.transactionHash, winner |-> ev.winner,
                      playerCount |-> ev.playerCount,
                      isDescendingOrder |-> isDescendingOrder])
              /\ inv' = [inv EXCEPT ![k] =
                     [@ EXCEPT !.pc = "awaitHat", !.dir = isDescendingOrder,
                               !.players = sortPlayers(EventPlayers(ev), isDescendingOrder),
                               !.i = 0, !.wroteGame = TRUE]]
              /\ UNCHANGED budget
    /\ UNCHANGED <<chainVars, game_participants, player_stats, sync_state, phase, catchup,
                   listenFrom, orderingEvents, aux>>

\* a loop that hands over to updatePlayerStats after its first player
WriteParticipant_StatsFirst(k, equippedHat, hatType, b) ==
    LET r == inv[k]
        player == r.players[r.i + 1]
    IN  \/ /\ b.faults > 0
           /\ budget' = UseFault(b)
           /\ inv' = [inv EXCEPT ![k] = Returned(@, "failed")]
           /\ history' = IF r.src = "catchup"
                         THEN [history EXCEPT !.faulted = @ @@ (r.gameId :> "faulted")]
                         ELSE history
           /\ UNCHANGED game_participants
        \/ /\ budget' = b
           /\ UNCHANGED history
           /\ IF gameExists(r.gameId)
              THEN /\ game_participants' = insertGameParticipant(game_participants,
                          [gameId |-> r.gameId, playerAddress |-> player.address,
                           score |-> player.score, position |-> position(r.i),
                           equippedHatId |-> equippedHat, hatType |-> hatType])
                   /\ inv' = [inv EXCEPT ![k] =
                          [@ EXCEPT !.pc = "awaitStats", !.i = 0, !.hat = 0]]
              ELSE /\ inv' = [inv EXCEPT ![k] = Returned(@, "failed")]
                   /\ UNCHANGED game_participants

\* db.insertGameParticipant for players[i] and the loop's next turn; after
\* the last player updatePlayerStats suspends at its first playerStats()
WriteParticipant(k, equippedHat, hatType, b) ==
    LET r == inv[k]
        player == r.players[r.i + 1]
    IN  \/ \* the insert throws: caught by syncGameFromEvent
           /\ b.faults > 0
           /\ budget' = UseFault(b)
           /\ inv' = [inv EXCEPT ![k] = Returned(@, "failed")]
           /\ history' = IF r.src = "catchup"
                         THEN [history EXCEPT !.faulted = @ @@ (r.gameId :> "faulted")]
                         ELSE history
           /\ UNCHANGED game_participants
        \/ /\ budget' = b
           /\ UNCHANGED history
           /\ IF gameExists(r.gameId)
              THEN /\ game_participants' = insertGameParticipant(game_participants,
                          [gameId |-> r.gameId, playerAddress |-> player.address,
                           score |-> player.score, position |-> position(r.i),
                           equippedHatId |-> equippedHat, hatType |-> hatType])
                   /\ inv' = [inv EXCEPT ![k] =
                          IF r.i + 1 < Len(r.players)
                          THEN [@ EXCEPT !.pc = "awaitHat", !.i = r.i + 1, !.hat = 0]
                          ELSE [@ EXCEPT !.pc = "awaitStats", !.i = 0, !.hat = 0]]
              ELSE \* FOREIGN KEY (game_id) REFERENCES games fails
                   /\ inv' = [inv EXCEPT ![k] = Returned(@, "failed")]
                   /\ UNCHANGED game_participants

\* getEquippedHat(player.address) has answered
SyncEquippedHat(k) ==
    /\ inv[k].pc = "awaitHat"
    /\ LET player == inv[k].players[inv[k].i + 1]
           hatId == playerStats[player.address].equippedHat
       IN  \/ \* the call rejects: logged, equippedHat = 0 and hatType = null
              /\ budget.faults > 0
              /\ WriteParticipant(k, 0, "null", UseFault(budget))
           \/ /\ hatId # 0
              /\ inv' = [inv EXCEPT ![k] = [@ EXCEPT !.pc = "awaitHatType", !.hat = hatId]]
              /\ UNCHANGED <<game_participants, budget, history>>
           \/ /\ hatId = 0
              /\ WriteParticipant(k, 0, "null", budget)
    /\ UNCHANGED <<chainVars, games, player_stats, sync_state, phase, catchup,
                   listenFrom, orderingEvents, qVars, others>>

\* a resolution that degrades to null
getHatTypeFromTokenId_Null == {"metadata.name", "null"}

\* getHatTypeFromTokenId never rejects: the metadata's name, or "Hat #<id>"
\* when the token URI or the metadata cannot be fetched
getHatTypeFromTokenId == {"metadata.name", "Hat #id"}

SyncHatType(k) ==
    /\ inv[k].pc = "awaitHatType"
    /\ \E hatType \in getHatTypeFromTokenId :
          WriteParticipant(k, inv[k].hat, hatType, budget)
    /\ UNCHANGED <<chainVars, games, player_stats, sync_state, phase, catchup,
                   listenFrom, orderingEvents, qVars, others>>

\* updatePlayerStats: the loop's next address, or the return of the whole
\* syncGameFromEvent after the last one
NextAddress(r) ==
    IF r.i + 1 < Len(r.players)
    THEN [r EXCEPT !.pc = "awaitStats", !.i = r.i + 1, !.stats = InitialStats]
    ELSE Returned(r, "synced")

\* playerStats(address) has answered
SyncPlayerStats(k) ==
    /\ inv[k].pc = "awaitStats"
    /\ LET address == inv[k].players[inv[k].i + 1].address
       IN  \/ \* the call rejects: logged, next address
              /\ budget.faults > 0
              /\ budget' = UseFault(budget)
              /\ inv' = [inv EXCEPT ![k] = NextAddress(@)]
           \/ /\ inv' = [inv EXCEPT ![k] =
                     [@ EXCEPT !.pc = "awaitStatsHat", !.stats = playerStats[address]]]
              /\ UNCHANGED budget
    /\ UNCHANGED <<chainVars, dbVars, phase, catchup, listenFrom, orderingEvents, aux>>

\* getEquippedHat(address) has answered: count the games, upsert the row
SyncUpsertStats(k) ==
    /\ inv[k].pc = "awaitStatsHat"
    /\ LET address == inv[k].players[inv[k].i + 1].address
           stats == inv[k].stats
           equippedHat == playerStats[address].equippedHat
           totalGames == Len(getPlayerGameHistory(address))
       IN  \/ \* the call rejects or the upsert throws: logged, next address
              /\ budget.faults > 0
              /\ budget' = UseFault(budget)
              /\ UNCHANGED player_stats
           \/ /\ player_stats' = upsertPlayerStats(player_stats,
                     [playerAddress |-> address,
                      bestScore |-> IF stats.hasPlayed THEN Some(stats.bestScore) ELSE None,
                      totalWins |-> stats.totalWins,
                      totalGames |-> totalGames,
                      currentEquippedHat |-> equippedHat,
                      hasPlayed |-> stats.hasPlayed])
              /\ UNCHANGED budget
    /\ inv' = [inv EXCEPT ![k] = NextAddress(@)]
    /\ UNCHANGED <<chainVars, games, game_participants, sync_state, phase, catchup,
                   listenFrom, orderingEvents, aux>>

\* ======================================================================
\* The synchronizer: startup, catch-up, live listeners
\* ======================================================================

IdleCatchup == [pc |-> "idle", events |-> <<>>, idx |-> 0, slot |-> 0]

\* queryFilter(filter, startBlock): the ids of the events from startBlock on
RECURSIVE queryFilter(_, _)
queryFilter(startBlock, n) ==
    IF n > Len(chainEvents) THEN <<>>
    ELSE IF chainEvents[n].blockNumber >= startBlock
         THEN <<chainEvents[n].gameId>> \o queryFilter(startBlock, n + 1)
         ELSE queryFilter(startBlock, n + 1)

\* startEventListeners: the listeners report the events from this block on
startEventListeners ==
    /\ phase' = "LIVE"
    /\ listenFrom' = blockNumber
    /\ catchup' = IdleCatchup

\* a listen callback that registers the listeners without a catch-up
StartServer_ListensFirst ==
    /\ phase = "DOWN"
    /\ startEventListeners
    /\ history' = [history EXCEPT !.faulted = [g \in DOMAIN @ |-> "retrying"]]
    /\ UNCHANGED <<chainVars, dbVars, inv, orderingEvents, budget, qVars, others>>

\* the listen callback of startServer calls syncHistoricalGames, which reads
\* the checkpoint and suspends at queryFilter
StartServer ==
    /\ phase = "DOWN"
    /\ phase' = "CATCHING_UP"
    /\ catchup' = [pc |-> "awaitQuery", events |-> <<>>, idx |-> 0, slot |-> 0]
    /\ history' = [history EXCEPT !.faulted = [g \in DOMAIN @ |-> "retrying"]]
    /\ UNCHANGED <<chainVars, dbVars, inv, listenFrom, orderingEvents, budget, qVars, others>>

\* queryFilter has answered
CatchupQuery ==
    /\ phase = "CATCHING_UP" /\ catchup.pc = "awaitQuery"
    /\ \/ \* the call rejects: caught by syncHistoricalGames, which returns
          /\ budget.faults > 0
          /\ budget' = UseFault(budget)
          /\ startEventListeners
       \/ /\ catchup' = [pc |-> "loop", idx |-> 1, slot |-> 0,
                         events |-> queryFilter(sync_state.last_synced_block, 1)]
          /\ UNCHANGED <<phase, listenFrom, budget>>
    /\ UNCHANGED <<chainVars, dbVars, inv, orderingEvents, aux>>

\* a loop that the failure of an invocation ends: the exception reaches the
\* catch of syncHistoricalGames, which returns
CatchupNext_Aborts ==
    /\ phase = "CATCHING_UP" /\ catchup.pc = "loop"
    /\ catchup.slot # 0 => inv[catchup.slot].pc = "done"
    /\ catchup.idx <= Len(catchup.events)
    /\ IF catchup.slot # 0 /\ inv[catchup.slot].result = "failed"
       THEN /\ startEventListeners
            /\ UNCHANGED inv
       ELSE LET ev == chainEvents[catchup.events[catchup.idx]]
            IN  /\ syncGameFromEvent(1, ev, "catchup")
                /\ catchup' = [catchup EXCEPT !.idx = @ + 1,
                                  !.slot = IF gameExists(ev.gameId) THEN 0 ELSE 1]
                /\ UNCHANGED <<phase, listenFrom>>
    /\ UNCHANGED <<chainVars, dbVars, orderingEvents, budget, aux>>

\* for (const event of events) await syncGameFromEvent(event): the next
\* event starts when the invocation of the one before has returned
CatchupNext ==
    /\ phase = "CATCHING_UP" /\ catchup.pc = "loop"
    /\ catchup.slot # 0 => inv[catchup.slot].pc = "done"
    /\ catchup.idx <= Len(catchup.events)
    /\ LET ev == chainEvents[catchup.events[catchup.idx]]
       IN  /\ syncGameFromEvent(1, ev, "catchup")
           /\ catchup' = [catchup EXCEPT !.idx = @ + 1,
                                         !.slot = IF gameExists(ev.gameId) THEN 0 ELSE 1]
    /\ UNCHANGED <<chainVars, dbVars, phase, listenFrom, orderingEvents, budget, aux>>

\* after the loop: updateSyncState with the last event fetched, then
\* startServer registers the listeners
CatchupFinish ==
    /\ phase = "CATCHING_UP" /\ catchup.pc = "loop"
    /\ catchup.slot # 0 => inv[catchup.slot].pc = "done"
    /\ catchup.idx > Len(catchup.events)
    /\ IF Len(catchup.events) > 0
       THEN LET latestEvent == chainEvents[catchup.events[Len(catchup.events)]]
            IN  \/ \* the update throws: caught by syncHistoricalGames
                   /\ budget.faults > 0
                   /\ budget' = UseFault(budget)
                   /\ UNCHANGED sync_state
                \/ /\ sync_state' = updateSyncState(latestEvent.blockNumber,
                                                    latestEvent.gameId)
                   /\ UNCHANGED budget
       ELSE UNCHANGED <<sync_state, budget>>
    /\ startEventListeners
    /\ history' = [history EXCEPT !.faulted =
                      [g \in DOMAIN @ |-> IF @[g] = "retrying" THEN "retried" ELSE @[g]]]
    /\ UNCHANGED <<chainVars, games, game_participants, player_stats, inv,
                   orderingEvents, qVars, others>>

\* the GameSubmitted listener: an event of a reported block is delivered (at
\* least once) and the callback starts syncGameFromEvent without awaiting it
OnGameSubmitted(g) ==
    /\ phase = "LIVE"
    /\ budget.deliveries > 0
    /\ chainEvents[g].blockNumber >= listenFrom
    /\ \E k \in Slots :
          /\ Idle(k)
          /\ \A j \in Slots : Idle(j) => k <= j
          /\ syncGameFromEvent(k, chainEvents[g], "live")
    /\ budget' = [budget EXCEPT !.deliveries = @ - 1]
    /\ UNCHANGED <<chainVars, dbVars, phase, catchup, listenFrom, orderingEvents, aux>>

\* a listener that would bring the stored games in line with the new mode
OnScoreOrderingChanged_Rewrites ==
    /\ phase = "LIVE"
    /\ orderingEvents > 0
    /\ orderingEvents' = orderingEvents - 1
    /\ history' = [history EXCEPT !.orderingHandled = @ + 1]
    /\ games' = [n \in 1..Len(games) |->
                    [games[n] EXCEPT !.is_descending_order =
                                        IF isDescendingOrder THEN 1 ELSE 0]]
    /\ UNCHANGED <<chainVars, game_participants, player_stats, sync_state, phase, catchup,
                   inv, listenFrom, budget, qVars, others>>

\* the ScoreOrderingChanged listener only logs
OnScoreOrderingChanged ==
    /\ phase = "LIVE"
    /\ orderingEvents > 0
    /\ orderingEvents' = orderingEvents - 1
    /\ history' = [history EXCEPT !.orderingHandled = @ + 1]
    /\ UNCHANGED <<chainVars, dbVars, phase, catchup, inv, listenFrom, budget, qVars, others>>

\* SIGINT / SIGTERM: db.close() and process.exit(0); whatever was suspended
\* at an await is gone, the database file stays
Shutdown ==
    /\ phase # "DOWN"
    /\ budget.restarts > 0
    /\ budget' = [budget EXCEPT !.restarts = @ - 1]
    /\ phase' = "DOWN"
    /\ catchup' = IdleCatchup
    /\ inv' = [k \in Slots |-> FreeInv]
    /\ listenFrom' = 0
    /\ orderingEvents' = 0
    /\ UNCHANGED <<chainVars, dbVars, aux>>

\* ======================================================================
\* Specification of the synchronizer
\* ======================================================================

NoRank == [state |-> "unused"]
NoQuery == [pc |-> "idle"]
NoHistory == [faulted |-> <<>>, orderingHandled |-> 0, autoUnequipped |-> FALSE,
              revertedSubmissions |-> 0]
NoHatNFT == [state |-> "unused"]
NoHttp == [state |-> "unused"]
NoRewardsManager == [state |-> "unused"]
NoSubmit == <<>>

\* the contract as deployed, the database as initializeTables leaves it,
\* the server not yet started
InitDeployed ==
    /\ isDescendingOrder = TRUE
    /\ currentGameId = 1
    /\ playerStats = [p \in Players |-> InitialStats]
    /\ chainEvents = <<>>
    /\ blockNumber = 0
    /\ games = <<>>
    /\ game_participants = <<>>
    /\ player_stats = <<>>
    /\ sync_state = [last_synced_block |-> 0, last_synced_game_id |-> 0]
    /\ phase = "DOWN"
    /\ catchup = IdleCatchup
    /\ inv = [k \in Slots |-> FreeInv]
    /\ listenFrom = 0
    /\ orderingEvents = 0
    /\ history = NoHistory
    /\ query = NoQuery
    /\ responses = <<>>
    /\ answers = <<>>

\* the synchronizer and the query service: the hat contract and the serving
\* layer stay out
InitSystem ==
    /\ InitDeployed
    /\ hatNFT = NoHatNFT
    /\ http = NoHttp
    /\ rewardsManager = NoRewardsManager
    /\ submit = NoSubmit

Init ==
    /\ InitSystem
    /\ budget = [toggles |-> MaxToggles, equips |-> MaxEquips, faults |-> MaxFaults,
                 restarts |-> MaxRestarts, deliveries |-> MaxDeliveries, queries |-> 0]
    /\ rk = NoRank

Next ==
    \/ \E pl \in Payloads : submitGameResult(pl)
    \/ toggleScoreOrdering
    \/ \E tokenId \in HatTokens \cup {0} : equipHat(ownerOf(1), tokenId)
    \/ StartServer
    \/ CatchupQuery
    \/ CatchupNext
    \/ CatchupFinish
    \/ \E g \in 1..Len(chainEvents) : OnGameSubmitted(g)
    \/ OnScoreOrderingChanged
    \/ \E k \in Slots : SyncInsertGame(k)
    \/ \E k \in Slots : SyncEquippedHat(k)
    \/ \E k \in Slots : SyncHatType(k)
    \/ \E k \in Slots : SyncPlayerStats(k)
    \/ \E k \in Slots : SyncUpsertStats(k)
    \/ Shutdown

Spec == Init /\ [][Next]_vars

\* ======================================================================
\* Specification of the synchronizer with its scheduling
\* ======================================================================

\* no fault is injected and the process is never shut down
InitLive ==
    /\ InitSystem
    /\ budget = [toggles |-> MaxToggles, equips |-> MaxEquips, faults |-> 0,
                 restarts |-> 0, deliveries |-> MaxDeliveries, queries |-> 0]
    /\ rk = NoRank

NextLive ==
    \/ \E pl \in Payloads : submitGameResult(pl)
    \/ toggleScoreOrdering
    \/ \E tokenId \in HatTokens \cup {0} : equipHat(ownerOf(1), tokenId)
    \/ StartServer
    \/ CatchupQuery
    \/ CatchupNext
    \/ CatchupFinish
    \/ \E g \in 1..Len(chainEvents) : OnGameSubmitted(g)
    \/ OnScoreOrderingChanged
    \/ \E k \in Slots : SyncInsertGame(k)
    \/ \E k \in Slots : SyncEquippedHat(k)
    \/ \E k \in Slots : SyncHatType(k)
    \/ \E k \in Slots : SyncPlayerStats(k)
    \/ \E k \in Slots : SyncUpsertStats(k)

\* the process starts, every call awaited is answered and its continuation
\* run, and the provider hands every event it reports to the listener
Scheduling ==
    /\ WF_vars(StartServer)
    /\ WF_vars(CatchupQuery)
    /\ WF_vars(CatchupNext)
    /\ WF_vars(CatchupFinish)
    /\ \A g \in 1..MaxGames : WF_vars(g <= Len(chainEvents) /\ OnGameSubmitted(g))
    /\ \A k \in Slots :
          /\ WF_vars(SyncInsertGame(k))
          /\ WF_vars(SyncEquippedHat(k))
          /\ WF_vars(SyncHatType(k))
          /\ WF_vars(SyncPlayerStats(k))
          /\ WF_vars(SyncUpsertStats(k))

SpecLive == InitLive /\ [][NextLive]_vars /\ Scheduling

\* ======================================================================
\* Specification of the synchronizer with faults and its own scheduling
\* ======================================================================

\* calls may reject and writes may throw; the process is never shut down
InitRetry ==
    /\ InitSystem
    /\ budget = [toggles |-> 0, equips |-> MaxEquips, faults |-> MaxFaults,
                 restarts |-> 0, deliveries |-> MaxDeliveries, queries |-> 0]
    /\ rk = NoRank

NextRetry ==
    \/ \E pl \in Payloads : submitGameResult(pl)
    \/ \E tokenId \in HatTokens \cup {0} : equipHat(ownerOf(1), tokenId)
    \/ StartServer
    \/ CatchupQuery
    \/ CatchupNext
    \/ CatchupFinish
    \/ \E g \in 1..Len(chainEvents) : OnGameSubmitted(g)
    \/ \E k \in Slots : SyncInsertGame(k)
    \/ \E k \in Slots : SyncEquippedHat(k)
    \/ \E k \in Slots : SyncHatType(k)
    \/ \E k \in Slots : SyncPlayerStats(k)
    \/ \E k \in Slots : SyncUpsertStats(k)

\* what the server itself runs: the process starts, every call it awaits is
\* settled and its continuation run; what the provider delivers is up to
\* the provider
OwnScheduling ==
    /\ WF_vars(StartServer)
    /\ WF_vars(CatchupQuery)
    /\ WF_vars(CatchupNext)
    /\ WF_vars(CatchupFinish)
    /\ \A k \in Slots :
          /\ WF_vars(SyncInsertGame(k))
          /\ WF_vars(SyncEquippedHat(k))
          /\ WF_vars(SyncHatType(k))
          /\ WF_vars(SyncPlayerStats(k))
          /\ WF_vars(SyncUpsertStats(k))

SpecRetry == InitRetry /\ [][NextRetry]_vars /\ OwnScheduling

\* ======================================================================
\* The query service: GET /game/:gameId
\* ======================================================================

\* ... ORDER BY position: the rows by position, rows of equal position in
\* rowid order
RECURSIVE InsertByPosition(_, _)
InsertByPosition(sorted, row) ==
    IF sorted = <<>> THEN <<row>>
    ELSE LET last == sorted[Len(sorted)]
         IN  IF last.position > row.position
             THEN Append(InsertByPosition(SubSeq(sorted, 1, Len(sorted) - 1), row), last)
             ELSE Append(sorted, row)

RECURSIVE OrderByPosition(_, _, _)
OrderByPosition(rows, n, acc) ==
    IF n > Len(rows) THEN acc
    ELSE OrderByPosition(rows, n + 1, InsertByPosition(acc, rows[n]))

\* db.getGame: the game row with its participants, or null
getGame(gameId) ==
    IF ~gameExists(gameId) THEN None
    ELSE Some([game |-> GameRows(gameId)[1],
               participants |-> OrderByPosition(ParticipantsOf(gameId), 1, <<>>)])

\* res.json: a boolean is written true or false, an SQLite flag 1 or 0
JsonBool(b) == IF b THEN "true" ELSE "false"

JsonFlag(n) == IF n = 0 THEN "0" ELSE "1"

scoringMode(desc) == IF desc THEN "Higher scores better" ELSE "Lower scores better"

\* the response built from the database: is_descending_order is the stored
\* integer, truthy when 1
DatabaseResponse(gameId) ==
    LET gameData == getGame(gameId)[1]
    IN  [status |-> 200,
         gameId |-> gameId,
         playerCount |-> gameData.game.player_count,
         blockNumber |-> gameData.game.block_number,
         transactionHash |-> gameData.game.transaction_hash,
         winner |-> gameData.game.winner_address,
         isDescendingOrder |-> JsonFlag(gameData.game.is_descending_order),
         scoringMode |-> scoringMode(gameData.game.is_descending_order # 0),
         players |-> [n \in 1..Len(gameData.participants) |->
                        [address |-> gameData.participants[n].player_address,
                         score |-> gameData.participants[n].score,
                         position |-> gameData.participants[n].position,
                         equippedHat |-> gameData.participants[n].equipped_hat_id,
                         hatType |-> gameData.participants[n].hat_type]],
         source |-> "database"]

\* a fallback response that carries the tag of the database
BlockchainResponse_TaggedDatabase(q) ==
    [status |-> 200, gameId |-> q.gameId, players |-> <<>>, source |-> "database"]

\* the response of the blockchain fallback: players sorted for the mode
\* read, positions index + 1
BlockchainResponse(q) ==
    LET ev == chainEvents[q.gameId]
        players == sortPlayers(q.players, q.dir)
    IN  [status |-> 200,
         gameId |-> q.gameId,
         playerCount |-> ev.playerCount,
         blockNumber |-> ev.blockNumber,
         transactionHash |-> ev.transactionHash,
         winner |-> ev.winner,
         isDescendingOrder |-> JsonBool(q.dir),
         scoringMode |-> scoringMode(q.dir),
         players |-> [n \in 1..Len(players) |-> [players[n] EXCEPT !.position = n]],
         source |-> "blockchain"]

\* every error answered as a fault
ErrorResponse_AlwaysFault(status) == [status |-> 500]

\* res.status(status).json({ error })
ErrorResponse(status) == [status |-> status]

Respond(gameId, response) ==
    /\ responses' = [g \in DOMAIN responses \cup {gameId} |->
                        IF g = gameId THEN response ELSE responses[g]]
    /\ query' = NoQuery

\* the handler up to its first await: the database first, on a miss the
\* fallback suspends at queryFilter
GetGame(gameId) ==
    /\ phase # "DOWN"
    /\ query.pc = "idle"
    /\ budget.queries > 0
    /\ LET b == [budget EXCEPT !.queries = @ - 1]
           fallback == [pc |-> "awaitEvents", gameId |-> gameId, dir |-> FALSE,
                        i |-> 0, hat |-> 0, players |-> <<>>]
       IN  \/ \* db.getGame throws: logged, falling back to the blockchain
              /\ b.faults > 0
              /\ budget' = UseFault(b)
              /\ query' = fallback
              /\ UNCHANGED responses
           \/ /\ budget' = b
              /\ IF getGame(gameId) # None
                 THEN Respond(gameId, DatabaseResponse(gameId))
                 ELSE /\ query' = fallback
                      /\ UNCHANGED responses
    /\ UNCHANGED <<chainVars, dbVars, srvVars, history, answers, others>>

\* queryFilter(gameFilter) has answered
GetGameEvents ==
    /\ query.pc = "awaitEvents"
    /\ \/ \* the call rejects: 500
          /\ budget.faults > 0
          /\ budget' = UseFault(budget)
          /\ Respond(query.gameId, ErrorResponse(500))
       \/ /\ query.gameId > Len(chainEvents)
          /\ Respond(query.gameId, ErrorResponse(404))
          /\ UNCHANGED budget
       \/ /\ query.gameId <= Len(chainEvents)
          /\ query' = [query EXCEPT !.pc = "awaitDir"]
          /\ UNCHANGED <<responses, budget>>
    /\ UNCHANGED <<chainVars, dbVars, srvVars, history, answers, others>>

\* isDescendingOrder() has answered
GetGameDir ==
    /\ query.pc = "awaitDir"
    /\ \/ \* the call rejects: 500
          /\ budget.faults > 0
          /\ budget' = UseFault(budget)
          /\ Respond(query.gameId, ErrorResponse(500))
       \/ /\ query' = [query EXCEPT !.pc = "awaitHat", !.dir = isDescendingOrder, !.i = 0]
          /\ UNCHANGED <<responses, budget>>
    /\ UNCHANGED <<chainVars, dbVars, srvVars, history, answers, others>>

\* players.push(player) and the loop's next turn; after the last player the
\* response is sent
PushPlayer(player) ==
    LET ev == chainEvents[query.gameId]
        q == [query EXCEPT !.players = Append(@, player), !.i = @ + 1, !.hat = 0]
    IN  IF q.i < ev.playerCount
        THEN /\ query' = [q EXCEPT !.pc = "awaitHat"]
             /\ UNCHANGED responses
        ELSE Respond(query.gameId, BlockchainResponse(q))

\* getEquippedHat(players[i]) has answered
GetGameEquippedHat ==
    /\ query.pc = "awaitHat"
    /\ LET ev == chainEvents[query.gameId]
           player == [address |-> ev.players[query.i + 1],
                      score |-> ev.scores[query.i + 1],
                      position |-> query.i + 1]
           hatId == playerStats[player.address].equippedHat
       IN  \/ \* the call rejects: logged, equippedHat = 0 and no hatType
              /\ budget.faults > 0
              /\ budget' = UseFault(budget)
              /\ PushPlayer(player @@ [equippedHat |-> 0])
           \/ /\ hatId # 0
              /\ query' = [query EXCEPT !.pc = "awaitHatType", !.hat = hatId]
              /\ UNCHANGED <<responses, budget>>
           \/ /\ hatId = 0
              /\ PushPlayer(player @@ [equippedHat |-> 0])
              /\ UNCHANGED budget
    /\ UNCHANGED <<chainVars, dbVars, srvVars, history, answers, others>>

\* getHatTypeFromTokenId(player.equippedHat) has answered
GetGameHatType ==
    /\ query.pc = "awaitHatType"
    /\ LET ev == chainEvents[query.gameId]
           player == [address |-> ev.players[query.i + 1],
                      score |-> ev.scores[query.i + 1],
                      position |-> query.i + 1,
                      equippedHat |-> query.hat]
       IN  \E hatType \in getHatTypeFromTokenId :
              PushPlayer(player @@ [hatType |-> hatType])
    /\ UNCHANGED <<chainVars, dbVars, srvVars, budget, history, answers, others>>

\* ======================================================================
\* The query service: GET /player/:address/stats
\* ======================================================================

\* ... ORDER BY g.game_id DESC: rows of one game id in rowid order
RECURSIVE InsertByGameIdDesc(_, _)
InsertByGameIdDesc(sorted, row) ==
    IF sorted = <<>> THEN <<row>>
    ELSE LET last == sorted[Len(sorted)]
         IN  IF last.game_id < row.game_id
             THEN Append(InsertByGameIdDesc(SubSeq(sorted, 1, Len(sorted) - 1), row), last)
             ELSE Append(sorted, row)

RECURSIVE OrderByGameIdDesc(_, _, _)
OrderByGameIdDesc(rows, n, acc) ==
    IF n > Len(rows) THEN acc
    ELSE OrderByGameIdDesc(rows, n + 1, InsertByGameIdDesc(acc, rows[n]))

\* db.getPlayerStats: the player_stats row (or undefined) and the player's
\* participant rows joined with their games
getPlayerStats(playerAddress) ==
    [stats |-> IF playerAddress \in DOMAIN player_stats
               THEN Some(player_stats[playerAddress]) ELSE None,
     games |-> OrderByGameIdDesc(getPlayerGameHistory(playerAddress), 1, <<>>)]

Answer(key, response) ==
    /\ answers' = [k \in DOMAIN answers \cup {key} |->
                      IF k = key THEN response ELSE answers[k]]
    /\ query' = NoQuery

\* the response built from the database
StatsDatabaseResponse(address) ==
    LET dbResult == getPlayerStats(address)
        stats == dbResult.stats[1]
    IN  [status |-> 200,
         address |-> address,
         stats |-> [bestScore |-> stats.best_score,
                    totalWins |-> stats.total_wins,
                    totalGamesPlayed |-> stats.total_games,
                    equippedHat |-> stats.current_equipped_hat,
                    hasPlayed |-> JsonFlag(stats.has_played),
                    gamesPlayed |-> [n \in 1..Len(dbResult.games) |->
                                        dbResult.games[n].game_id]],
         gameHistory |-> [n \in 1..Len(dbResult.games) |->
                            [gameId |-> dbResult.games[n].game_id,
                             score |-> dbResult.games[n].score,
                             position |-> dbResult.games[n].position,
                             equippedHat |-> dbResult.games[n].equipped_hat_id,
                             hatType |-> dbResult.games[n].hat_type]],
         source |-> "database"]

\* the response of the blockchain fallback, before the game history
StatsBlockchainResponse(address, stats) ==
    [status |-> 200,
     address |-> address,
     stats |-> [bestScore |-> Some(stats.bestScore),
                totalWins |-> stats.totalWins,
                equippedHat |-> stats.equippedHat,
                hasPlayed |-> JsonBool(stats.hasPlayed)],
     source |-> "blockchain"]

\* response.stats with more fields
WithStats(response, fields) == [response EXCEPT !.stats = fields @@ @]

\* the ids of the events whose players include the address
GamesPlayed(address) ==
    LET played == SelectSeq(chainEvents,
                      LAMBDA ev : \E n \in 1..Len(ev.players) : ev.players[n] = address)
    IN  [n \in 1..Len(played) |-> played[n].gameId]

\* the handler up to its first await: the database first; a hit with a hat
\* equipped suspends at getHatTypeFromTokenId, a miss or a database error
\* at playerStats(address)
GetPlayerStats(address) ==
    /\ phase # "DOWN"
    /\ query.pc = "idle"
    /\ budget.queries > 0
    /\ LET b == [budget EXCEPT !.queries = @ - 1]
           fallback == [pc |-> "statsAwaitChain", address |-> address]
       IN  \/ \* db.getPlayerStats throws: logged, falling back to the blockchain
              /\ b.faults > 0
              /\ budget' = UseFault(b)
              /\ query' = fallback
              /\ UNCHANGED answers
           \/ /\ budget' = b
              /\ IF getPlayerStats(address).stats # None
                 THEN LET response == StatsDatabaseResponse(address)
                      IN  IF response.stats.equippedHat # 0
                          THEN /\ query' = [pc |-> "statsAwaitDbHatType",
                                            address |-> address, response |-> response]
                               /\ UNCHANGED answers
                          ELSE Answer(address, response)
                 ELSE /\ query' = fallback
                      /\ UNCHANGED answers
    /\ UNCHANGED <<chainVars, dbVars, srvVars, history, responses, others>>

\* getHatTypeFromTokenId has answered on the database path
GetStatsDbHatType ==
    /\ query.pc = "statsAwaitDbHatType"
    /\ \E hatType \in getHatTypeFromTokenId :
          Answer(query.address,
                 WithStats(query.response, [equippedHatType |-> hatType]))
    /\ UNCHANGED <<chainVars, dbVars, srvVars, budget, history, responses, others>>

\* playerStats(address) has answered
GetStatsChain ==
    /\ query.pc = "statsAwaitChain"
    /\ \/ \* the call rejects: 500
          /\ budget.faults > 0
          /\ budget' = UseFault(budget)
          /\ Answer(query.address, ErrorResponse(500))
       \/ /\ LET response == StatsBlockchainResponse(query.address,
                                                     playerStats[query.address])
             IN  query' = [pc |-> IF response.stats.equippedHat # 0
                                  THEN "statsAwaitHatType" ELSE "statsAwaitEvents",
                           address |-> query.address, response |-> response]
          /\ UNCHANGED <<answers, budget>>
    /\ UNCHANGED <<chainVars, dbVars, srvVars, history, responses, others>>

\* getHatTypeFromTokenId has answered on the fallback path
GetStatsHatType ==
    /\ query.pc = "statsAwaitHatType"
    /\ \E hatType \in getHatTypeFromTokenId :
          query' = [query EXCEPT !.pc = "statsAwaitEvents",
                                 !.response = WithStats(@, [equippedHatType |-> hatType])]
    /\ UNCHANGED <<chainVars, dbVars, srvVars, budget, history, responses, answers, others>>

\* a fallback that would store what it has read from the chain
GetStatsEvents_Caches ==
    /\ query.pc = "statsAwaitEvents"
    /\ LET gamesPlayed == GamesPlayed(query.address)
           stats == playerStats[query.address]
       IN  /\ Answer(query.address,
                     WithStats(query.response,
                               [gamesPlayed |-> gamesPlayed,
                                totalGamesPlayed |-> Len(gamesPlayed)]))
           /\ player_stats' = upsertPlayerStats(player_stats,
                  [playerAddress |-> query.address,
                   bestScore |-> IF stats.hasPlayed THEN Some(stats.bestScore) ELSE None,
                   totalWins |-> stats.totalWins,
                   totalGames |-> Len(gamesPlayed),
                   currentEquippedHat |-> stats.equippedHat,
                   hasPlayed |-> stats.hasPlayed])
    /\ UNCHANGED <<chainVars, games, game_participants, sync_state, srvVars, budget,
                   history, responses, others>>

\* queryFilter(gameFilter) has answered: the game history, empty when the
\* call rejects
GetStatsEvents ==
    /\ query.pc = "statsAwaitEvents"
    /\ \/ /\ budget.faults > 0
          /\ budget' = UseFault(budget)
          /\ Answer(query.address,
                    WithStats(query.response,
                              [gamesPlayed |-> <<>>, totalGamesPlayed |-> 0]))
       \/ /\ LET gamesPlayed == GamesPlayed(query.address)
             IN  Answer(query.address,
                        WithStats(query.response,
                                  [gamesPlayed |-> gamesPlayed,
                                   totalGamesPlayed |-> Len(gamesPlayed)]))
          /\ UNCHANGED budget
    /\ UNCHANGED <<chainVars, dbVars, srvVars, history, responses, others>>

\* ======================================================================
\* The query service: GET /leaderboard and GET /db/info
\* ======================================================================

\* WHERE has_played = TRUE
Qualifying == {a \in DOMAIN player_stats : player_stats[a].has_played = 1}

\* the value best_score sorts by: NULL is below every number
ScoreKey(row) == IF row.best_score = None THEN -1 ELSE row.best_score[1]

\* ORDER BY total_wins DESC, best_score DESC: r1 sorts strictly before r2
Before(r1, r2) ==
    \/ r1.total_wins > r2.total_wins
    \/ r1.total_wins = r2.total_wins /\ ScoreKey(r1) > ScoreKey(r2)

LeaderboardRow(a) == [player_address |-> a] @@ player_stats[a]

\* db.getLeaderboard(limit): the results the statement can give, rows equal
\* in both keys in any order
getLeaderboard(limit) ==
    LET n == Cardinality(Qualifying)
        orders == {s \in [1..n -> Qualifying] :
                      /\ \A i, j \in 1..n : s[i] = s[j] => i = j
                      /\ \A i, j \in 1..n :
                            i < j => ~Before(player_stats[s[j]], player_stats[s[i]])}
    IN  {[i \in 1..(IF limit < n THEN limit ELSE n) |-> LeaderboardRow(s[i])] :
            s \in orders}

LeaderboardFallback ==
    [status |-> 200, playerCount |-> 0, players |-> <<>>, source |-> "fallback"]

LeaderboardResponse(players) ==
    [status |-> 200,
     playerCount |-> Len(players),
     players |-> [i \in 1..Len(players) |->
                    [rank |-> i,
                     address |-> players[i].player_address,
                     bestScore |-> players[i].best_score,
                     totalWins |-> players[i].total_wins,
                     totalGames |-> players[i].total_games,
                     currentEquippedHat |-> players[i].current_equipped_hat,
                     hasPlayed |-> JsonFlag(players[i].has_played)]],
     source |-> "database"]

\* the whole handler: it awaits nothing
GetLeaderboard(limit) ==
    /\ phase # "DOWN"
    /\ query.pc = "idle"
    /\ budget.queries > 0
    /\ LET b == [budget EXCEPT !.queries = @ - 1]
       IN  \/ \* db.getLeaderboard throws: logged, the fallback message
              /\ b.faults > 0
              /\ budget' = UseFault(b)
              /\ Answer("leaderboard", LeaderboardFallback)
           \/ /\ budget' = b
              /\ \E players \in getLeaderboard(limit) :
                    IF Len(players) > 0
                    THEN Answer("leaderboard", LeaderboardResponse(players))
                    ELSE Answer("leaderboard", LeaderboardFallback)
    /\ UNCHANGED <<chainVars, dbVars, srvVars, history, responses, others>>

\* db.getAllGames(limit, 0): ORDER BY game_id DESC LIMIT ?
getAllGames(limit) ==
    LET rows == OrderByGameIdDesc(games, 1, <<>>)
    IN  SubSeq(rows, 1, IF limit < Len(rows) THEN limit ELSE Len(rows))

DbInfoResponse ==
    LET recentGames == getAllGames(5)
    IN  [status |-> 200,
         tables |-> [games |-> Len(games),
                     players |-> Cardinality(Qualifying),
                     participants |-> Len(game_participants)],
         sync |-> [lastSyncedBlock |-> sync_state.last_synced_block,
                   lastSyncedGameId |-> sync_state.last_synced_game_id,
                   status |-> IF Len(games) > 0 THEN "synced" ELSE "empty"],
         recentGames |-> [n \in 1..Len(recentGames) |->
                            [gameId |-> recentGames[n].game_id,
                             playerCount |-> recentGames[n].player_count,
                             winner |-> recentGames[n].winner_address,
                             blockNumber |-> recentGames[n].block_number]]]

\* the whole handler: it awaits nothing
GetDbInfo ==
    /\ phase # "DOWN"
    /\ query.pc = "idle"
    /\ budget.queries > 0
    /\ LET b == [budget EXCEPT !.queries = @ - 1]
       IN  \/ \* a statement throws: 500
              /\ b.faults > 0
              /\ budget' = UseFault(b)
              /\ Answer("db/info", ErrorResponse(500))
           \/ /\ budget' = b
              /\ Answer("db/info", DbInfoResponse)
    /\ UNCHANGED <<chainVars, dbVars, srvVars, history, responses, others>>

\* ======================================================================
\* Specification of the reads beside the catch-up, with faults
\* ======================================================================

InitRead ==
    /\ InitSystem
    /\ budget = [toggles |-> MaxToggles, equips |-> MaxEquips, faults |-> MaxFaults,
                 restarts |-> 0, deliveries |-> 0, queries |-> MaxQueries]
    /\ rk = NoRank

NextRead ==
    \/ \E pl \in Payloads : submitGameResult(pl)
    \/ toggleScoreOrdering
    \/ \E tokenId \in HatTokens \cup {0} : equipHat(ownerOf(1), tokenId)
    \/ StartServer
    \/ CatchupQuery
    \/ CatchupNext
    \/ CatchupFinish
    \/ OnScoreOrderingChanged
    \/ \E k \in Slots : SyncInsertGame(k)
    \/ \E k \in Slots : SyncEquippedHat(k)
    \/ \E k \in Slots : SyncHatType(k)
    \/ \E k \in Slots : SyncPlayerStats(k)
    \/ \E k \in Slots : SyncUpsertStats(k)
    \/ \E gameId \in 1..MaxGames : GetGame(gameId)
    \/ GetGameEvents
    \/ GetGameDir
    \/ GetGameEquippedHat
    \/ GetGameHatType
    \/ \E address \in Players : GetPlayerStats(address)
    \/ GetStatsDbHatType
    \/ GetStatsChain
    \/ GetStatsHatType
    \/ GetStatsEvents
    \/ \E limit \in 1..MaxLimit : GetLeaderboard(limit)
    \/ GetDbInfo

SpecRead == InitRead /\ [][NextRead]_vars

\* ======================================================================
\* Specification of the query service beside the synchronizer
\* ======================================================================

InitQuery ==
    /\ InitSystem
    /\ budget = [toggles |-> MaxToggles, equips |-> MaxEquips, faults |-> 0,
                 restarts |-> 0, deliveries |-> 1, queries |-> MaxQueries]
    /\ rk = NoRank

NextQuery ==
    \/ \E pl \in Payloads : submitGameResult(pl)
    \/ toggleScoreOrdering
    \/ \E tokenId \in HatTokens \cup {0} : equipHat(ownerOf(1), tokenId)
    \/ StartServer
    \/ CatchupQuery
    \/ CatchupNext
    \/ CatchupFinish
    \/ \E g \in 1..Len(chainEvents) : OnGameSubmitted(g)
    \/ OnScoreOrderingChanged
    \/ \E k \in Slots : SyncInsertGame(k)
    \/ \E k \in Slots : SyncEquippedHat(k)
    \/ \E k \in Slots : SyncHatType(k)
    \/ \E k \in Slots : SyncPlayerStats(k)
    \/ \E k \in Slots : SyncUpsertStats(k)
    \/ \E gameId \in 1..MaxGames : GetGame(gameId)
    \/ GetGameEvents
    \/ GetGameDir
    \/ GetGameEquippedHat
    \/ GetGameHatType

SpecQuery == InitQuery /\ [][NextQuery]_vars

\* ======================================================================
\* Specification of the leaderboard alone
\* ======================================================================

\* player_stats rows of players who have played
BoardRows ==
    [best_score : {Some(s) : s \in Scores}, total_wins : 0..MaxWins,
     total_games : {MaxWins}, current_equipped_hat : {0}, has_played : {1}]

BoardTables == UNION {[ps -> BoardRows] : ps \in SUBSET Players}

\* a running server over any such table and either direction
InitBoard ==
    /\ isDescendingOrder \in BOOLEAN
    /\ currentGameId = 1
    /\ playerStats = [p \in Players |-> InitialStats]
    /\ chainEvents = <<>>
    /\ blockNumber = 0
    /\ games = <<>>
    /\ game_participants = <<>>
    /\ player_stats \in BoardTables
    /\ sync_state = [last_synced_block |-> 0, last_synced_game_id |-> 0]
    /\ phase = "LIVE"
    /\ catchup = IdleCatchup
    /\ inv = [k \in Slots |-> FreeInv]
    /\ listenFrom = 0
    /\ orderingEvents = 0
    /\ history = NoHistory
    /\ query = NoQuery
    /\ responses = <<>>
    /\ answers = <<>>
    /\ budget = [toggles |-> 0, equips |-> 0, faults |-> 0, restarts |-> 0,
                 deliveries |-> 0, queries |-> MaxQueries]
    /\ rk = NoRank
    /\ hatNFT = NoHatNFT
    /\ http = NoHttp
    /\ rewardsManager = NoRewardsManager
    /\ submit = NoSubmit

NextBoard == \E limit \in 1..MaxLimit : GetLeaderboard(limit)

SpecBoard == InitBoard /\ [][NextBoard]_vars

\* ======================================================================
\* Specification of the ranking alone
\* ======================================================================

\* what syncGameFromEvent hands to insertGameParticipant for one event:
\* the entries sorted for the mode, each with its position
rankParticipants(ev, desc) ==
    LET players == sortPlayers(EventPlayers(ev), desc)
    IN  [n \in 1..Len(players) |->
            [playerAddress |-> players[n].address, score |-> players[n].score,
             position |-> position(n - 1)]]

RankInputs ==
    { [playerCount |-> n, players |-> ps, scores |-> sc] :
        n \in 1..MaxRankPlayers, ps \in UNION {[1..m -> Players] : m \in 1..MaxRankPlayers},
        sc \in UNION {[1..m -> Scores] : m \in 1..MaxRankPlayers} }

InitRank ==
    /\ InitSystem
    /\ budget = [toggles |-> 0, equips |-> 0, faults |-> 0, restarts |-> 0, deliveries |-> 0,
                 queries |-> 0]
    /\ \E ev \in RankInputs, desc \in BOOLEAN :
          /\ Len(ev.players) = ev.playerCount
          /\ Len(ev.scores) = ev.playerCount
          /\ rk = [state |-> "event", event |-> ev, desc |-> desc, ranked |-> <<>>]

RankEvent ==
    /\ rk.state = "event"
    /\ rk' = [rk EXCEPT !.state = "ranked", !.ranked = rankParticipants(rk.event, rk.desc)]
    /\ UNCHANGED <<chainVars, dbVars, srvVars, budget, history, qVars, hatNFT, http,
                   rewardsManager, submit>>

NextRank == RankEvent

SpecRank == InitRank /\ [][NextRank]_vars

\* ======================================================================
\* HatNFT and the GameManager with automatic unequip
\* ======================================================================

ZeroAddress == "0x0"
Tokens == 1..MaxTokens

\* the deployer, owner of the contracts, and the accounts that send calls
Owner == "owner"
Senders == {Owner, "A"}

\* a transaction, reverted or not, is mined in a block of its own
CanSend == blockNumber < MaxTxs

Mined ==
    /\ blockNumber' = blockNumber + 1
    /\ UNCHANGED <<dbVars, srvVars, budget, qVars, rk, http>>

\* HatNFT.mint, sent by the owner of the contract
HatNFT_mint(to) ==
    /\ CanSend
    /\ to # ZeroAddress
    /\ hatNFT.nextTokenId <= MaxTokens
    /\ hatNFT' = [hatNFT EXCEPT !.ownerOf[hatNFT.nextTokenId] = to, !.nextTokenId = @ + 1]
    /\ Mined
    /\ UNCHANGED <<isDescendingOrder, currentGameId, playerStats, chainEvents, history,
                   rewardsManager, submit>>

\* GameManager.unequipHatForPlayer: reverts unless HatNFT is the sender
unequipHatForPlayer(sender, player, tokenId) ==
    IF sender # "HatNFT" THEN [reverted |-> TRUE, playerStats |-> playerStats]
    ELSE [reverted |-> FALSE,
          playerStats |-> IF playerStats[player].equippedHat = tokenId
                          THEN [playerStats EXCEPT ![player].equippedHat = 0]
                          ELSE playerStats]

\* a transfer that leaves the sender's equipment alone
HatNFT_transfer_KeepsEquipped(sender, to, tokenId) ==
    /\ CanSend
    /\ hatNFT.ownerOf[tokenId] = sender /\ to # ZeroAddress
    /\ hatNFT' = [hatNFT EXCEPT !.ownerOf[tokenId] = to]
    /\ Mined
    /\ UNCHANGED <<isDescendingOrder, currentGameId, playerStats, chainEvents, history,
                   rewardsManager, submit>>

\* HatNFT.transfer: the hat is unequipped when the sender wears it and the
\* GameManager is set
HatNFT_transfer(sender, to, tokenId) ==
    /\ CanSend
    /\ hatNFT.ownerOf[tokenId] = sender /\ to # ZeroAddress
    /\ IF hatNFT.gameManager # ZeroAddress /\ playerStats[sender].equippedHat = tokenId
       THEN LET call == unequipHatForPlayer("HatNFT", sender, tokenId)
            IN  /\ ~call.reverted
                /\ playerStats' = call.playerStats
                /\ history' = [history EXCEPT !.autoUnequipped = TRUE]
       ELSE UNCHANGED <<playerStats, history>>
    /\ hatNFT' = [hatNFT EXCEPT !.ownerOf[tokenId] = to]
    /\ Mined
    /\ UNCHANGED <<isDescendingOrder, currentGameId, chainEvents,
                   rewardsManager, submit>>

\* GameManager.equipHat with the ownership read from HatNFT
GameManager_equipHat(sender, tokenId) ==
    /\ CanSend
    /\ tokenId # 0 => hatNFT.ownerOf[tokenId] = sender
    /\ playerStats' = [playerStats EXCEPT ![sender].equippedHat = tokenId]
    /\ Mined
    /\ UNCHANGED <<isDescendingOrder, currentGameId, chainEvents, hatNFT, history,
                   rewardsManager, submit>>

\* GameManager.unequipHat
GameManager_unequipHat(sender) ==
    /\ CanSend
    /\ playerStats' = [playerStats EXCEPT ![sender].equippedHat = 0]
    /\ Mined
    /\ UNCHANGED <<isDescendingOrder, currentGameId, chainEvents, hatNFT, history,
                   rewardsManager, submit>>

\* GameManager.unequipHatForPlayer sent by an account
GameManager_unequipHatForPlayer(sender, player, tokenId) ==
    /\ CanSend
    /\ playerStats' = unequipHatForPlayer(sender, player, tokenId).playerStats
    /\ Mined
    /\ UNCHANGED <<isDescendingOrder, currentGameId, chainEvents, hatNFT, history,
                   rewardsManager, submit>>

\* GameManager.verifyHatOwnership
verifyHatOwnership(player) ==
    LET equippedHat == playerStats[player].equippedHat
    IN  IF equippedHat = 0 THEN TRUE ELSE hatNFT.ownerOf[equippedHat] = player

\* GameManager.toggleScoreOrdering, sent by the owner
GameManager_toggleScoreOrdering ==
    /\ CanSend
    /\ isDescendingOrder' = ~isDescendingOrder
    /\ Mined
    /\ UNCHANGED <<currentGameId, playerStats, chainEvents, hatNFT, history,
                   rewardsManager, submit>>

\* the transaction of GameManager.submitGameResult, sent by the owner
GameManager_submitGameResultTx(players, scores) ==
    /\ CanSend
    /\ currentGameId <= MaxGames
    /\ Len(players) = Len(scores)
    /\ Len(players) > 0 /\ Len(players) <= 7
    /\ \A i \in 1..Len(players) : verifyHatOwnership(players[i])
    /\ LET winner == players[WinnerIndex(scores, isDescendingOrder, 2, 1)]
           ev == [gameId |-> currentGameId, winner |-> winner,
                  playerCount |-> Len(players), players |-> players,
                  scores |-> scores, blockNumber |-> blockNumber + 1,
                  transactionHash |-> blockNumber + 1]
       IN  /\ playerStats' = FoldStats(playerStats, players, scores, winner,
                                       isDescendingOrder, 1)
           /\ chainEvents' = Append(chainEvents, ev)
    /\ currentGameId' = currentGameId + 1
    /\ Mined
    /\ UNCHANGED <<isDescendingOrder, hatNFT, history>>

\* GameManager.submitGameResult, sent by the owner
GameManager_submitGameResult(players, scores) ==
    /\ GameManager_submitGameResultTx(players, scores)
    /\ UNCHANGED <<rewardsManager, submit>>

\* whether submitGameResult passes onlyOwner and its requires
submitGameResultPasses(sender, players, scores) ==
    /\ sender = Owner
    /\ Len(players) = Len(scores)
    /\ Len(players) > 0 /\ Len(players) <= 7
    /\ \A i \in 1..Len(players) : verifyHatOwnership(players[i])

\* a submitGameResult that reverts: its block is mined, nothing is written
GameManager_submitGameResultReverts(sender, players, scores) ==
    /\ CanSend
    /\ history.revertedSubmissions < MaxReverts
    /\ ~submitGameResultPasses(sender, players, scores)
    /\ history' = [history EXCEPT !.revertedSubmissions = @ + 1]
    /\ Mined
    /\ UNCHANGED <<isDescendingOrder, currentGameId, playerStats, chainEvents, hatNFT,
                   rewardsManager, submit>>

\* a count that includes the id of the next game
getTotalGames_Next == currentGameId

\* GameManager.getTotalGames
getTotalGames == currentGameId - 1

\* ======================================================================
\* Specification of the contracts
\* ======================================================================

ContractScores == {50, 100}

\* players and scores of up to two entries, a player possibly listed twice
Submissions ==
    UNION { [players : [1..n -> Players], scores : [1..n -> ContractScores]] : n \in 1..2 }

\* a submission sent by an account that is not the owner, and submissions of
\* the owner with no player and with more players than scores
RevertingSubmissions ==
    { [sender |-> "A", players |-> <<"A">>, scores |-> <<100>>],
      [sender |-> Owner, players |-> <<>>, scores |-> <<>>],
      [sender |-> Owner, players |-> <<"A", "B">>, scores |-> <<100>>] }

\* the contracts as the deployment script leaves them: no hat minted, the
\* GameManager reference set in HatNFT
InitContracts ==
    /\ InitDeployed
    /\ budget = [toggles |-> 0, equips |-> 0, faults |-> 0, restarts |-> 0, deliveries |-> 0,
                 queries |-> 0]
    /\ rk = NoRank
    /\ http = NoHttp
    /\ rewardsManager = NoRewardsManager
    /\ submit = NoSubmit
    /\ hatNFT = [ownerOf |-> [t \in Tokens |-> ZeroAddress], nextTokenId |-> 1,
                 gameManager |-> "GameManager"]

NextContracts ==
    \/ \E to \in Players : HatNFT_mint(to)
    \/ \E sender, to \in Players, tokenId \in Tokens : HatNFT_transfer(sender, to, tokenId)
    \/ \E sender \in Players, tokenId \in Tokens \cup {0} : GameManager_equipHat(sender, tokenId)
    \/ \E sender \in Players : GameManager_unequipHat(sender)
    \/ \E sender, player \in Players, tokenId \in Tokens :
          GameManager_unequipHatForPlayer(sender, player, tokenId)
    \/ GameManager_toggleScoreOrdering
    \/ \E s \in Submissions : GameManager_submitGameResult(s.players, s.scores)
    \/ \E r \in RevertingSubmissions :
          GameManager_submitGameResultReverts(r.sender, r.players, r.scores)

SpecContracts == InitContracts /\ [][NextContracts]_vars

\* ======================================================================
\* RewardsManager
\* ======================================================================

\* the contract after its constructor; transfers and distributed record the
\* payments made and the batchDistributeRewards calls that did not revert
DeployedRewardsManager ==
    [totalRewardAmount |-> 0, numberOfWinners |-> 0, isActive |-> FALSE,
     percent |-> <<50, 30, 20>>,
     gameResultsStored |-> {},
     winner |-> [g \in 1..MaxGames |-> <<ZeroAddress, ZeroAddress, ZeroAddress>>],
     rewardsClaimed |-> {},
     balance |-> 0,
     transfers |-> <<>>,
     distributed |-> [g \in 1..MaxGames |-> 0]]

RECURSIVE SumFrom(_, _)
SumFrom(percentages, i) ==
    IF i > Len(percentages) THEN 0 ELSE percentages[i] + SumFrom(percentages, i + 1)

\* a transaction to RewardsManager is mined; a reverted one changes nothing
RewardsTx(next) ==
    /\ CanSend
    /\ rewardsManager' = next
    /\ Mined
    /\ UNCHANGED <<isDescendingOrder, currentGameId, playerStats, chainEvents, hatNFT,
                   history>>

\* receive(): the contract is funded
Fund(amount) ==
    /\ rewardsManager.balance + amount <= MaxBalance
    /\ RewardsTx([rewardsManager EXCEPT !.balance = @ + amount])
    /\ UNCHANGED submit

configureGlobalRewardsCall(rm, sender, total, winners, percentages) ==
    IF /\ sender = Owner
       /\ winners <= 3
       /\ total > 0
       /\ Len(percentages) = winners
       /\ SumFrom(percentages, 1) = 100
    THEN [rm EXCEPT !.totalRewardAmount = total,
                    !.numberOfWinners = winners,
                    !.percent = [i \in 1..3 |-> IF winners >= i THEN percentages[i] ELSE @[i]],
                    !.isActive = TRUE]
    ELSE rm

configureGlobalRewards(sender, total, winners, percentages) ==
    /\ RewardsTx(configureGlobalRewardsCall(rewardsManager, sender, total, winners,
                                            percentages))
    /\ UNCHANGED submit

\* whether submitGameResults passes its requires
submitGameResultsPasses(rm, sender, gameId, winners) ==
    /\ sender = Owner
    /\ gameId \notin rm.gameResultsStored
    /\ rm.isActive
    /\ Len(winners) = rm.numberOfWinners

submitGameResultsCall(rm, sender, gameId, winners) ==
    IF submitGameResultsPasses(rm, sender, gameId, winners)
    THEN [rm EXCEPT !.winner[gameId] =
                        [i \in 1..3 |-> IF rm.numberOfWinners >= i THEN winners[i] ELSE @[i]],
                    !.gameResultsStored = @ \cup {gameId}]
    ELSE rm

submitGameResults(sender, gameId, winners) ==
    /\ RewardsTx(submitGameResultsCall(rewardsManager, sender, gameId, winners))
    /\ UNCHANGED submit

\* a payment that does not look at rewardsClaimed
PayWinner_NoClaimCheck(rm, sender, gameId, i) ==
    LET p == rm.winner[gameId][i]
        amount == (rm.totalRewardAmount * rm.percent[i]) \div 100
    IN  IF rm.numberOfWinners >= i /\ rm.balance >= amount
        THEN [rm EXCEPT !.rewardsClaimed = @ \cup {<<gameId, p>>},
                        !.balance = @ - amount,
                        !.transfers = Append(@, [gameId |-> gameId, to |-> p,
                                                 amount |-> amount, sender |-> sender])]
        ELSE rm

\* one of the three blocks of batchDistributeRewards
PayWinner(rm, sender, gameId, i) ==
    LET p == rm.winner[gameId][i]
        amount == (rm.totalRewardAmount * rm.percent[i]) \div 100
    IN  IF /\ rm.numberOfWinners >= i
           /\ <<gameId, p>> \notin rm.rewardsClaimed
           /\ rm.balance >= amount
        THEN [rm EXCEPT !.rewardsClaimed = @ \cup {<<gameId, p>>},
                        !.balance = @ - amount,
                        !.transfers = Append(@, [gameId |-> gameId, to |-> p,
                                                 amount |-> amount, sender |-> sender])]
        ELSE rm

batchDistributeRewardsPasses(rm, sender, gameId) ==
    sender = Owner /\ gameId \in rm.gameResultsStored /\ rm.isActive

batchDistributeRewardsCall(rm, sender, gameId) ==
    IF batchDistributeRewardsPasses(rm, sender, gameId)
    THEN LET paid == PayWinner(PayWinner(PayWinner(rm, sender, gameId, 1),
                                         sender, gameId, 2), sender, gameId, 3)
         IN  [paid EXCEPT !.distributed[gameId] = @ + 1]
    ELSE rm

batchDistributeRewards(sender, gameId) ==
    /\ RewardsTx(batchDistributeRewardsCall(rewardsManager, sender, gameId))
    /\ UNCHANGED submit

RECURSIVE PayLeaders(_, _, _, _, _)
PayLeaders(rm, sender, winners, amounts, i) ==
    IF i > Len(winners) THEN rm
    ELSE PayLeaders(
             IF rm.balance >= amounts[i] /\ amounts[i] > 0
             THEN [rm EXCEPT !.balance = @ - amounts[i],
                             !.transfers = Append(@, [gameId |-> 0, to |-> winners[i],
                                                      amount |-> amounts[i],
                                                      sender |-> sender])]
             ELSE rm,
             sender, winners, amounts, i + 1)

distributeLeaderboardRewards(sender, winners, amounts) ==
    /\ RewardsTx(IF sender = Owner /\ Len(winners) = Len(amounts) /\ Len(winners) <= 10
                 THEN PayLeaders(rewardsManager, sender, winners, amounts, 1)
                 ELSE rewardsManager)
    /\ UNCHANGED submit

\* ======================================================================
\* Specification of RewardsManager
\* ======================================================================

Percentages == { <<100>>, <<50, 50>>, <<60, 30>> }
WinnerLists == UNION { [1..n -> Players] : n \in 1..2 }

InitRewards ==
    /\ InitDeployed
    /\ budget = [toggles |-> 0, equips |-> 0, faults |-> 0, restarts |-> 0, deliveries |-> 0,
                 queries |-> 0]
    /\ rk = NoRank
    /\ hatNFT = NoHatNFT
    /\ http = NoHttp
    /\ submit = NoSubmit
    /\ rewardsManager = DeployedRewardsManager

NextRewards ==
    \/ Fund(MaxBalance)
    \/ \E sender \in Senders, total \in {0, 100}, winners \in 1..2, percentages \in Percentages :
          configureGlobalRewards(sender, total, winners, percentages)
    \/ \E sender \in Senders, gameId \in 1..MaxGames, winners \in WinnerLists :
          submitGameResults(sender, gameId, winners)
    \/ \E sender \in Senders, gameId \in 1..MaxGames : batchDistributeRewards(sender, gameId)
    \/ \E sender \in Senders, winners \in WinnerLists :
          distributeLeaderboardRewards(sender, winners, [i \in 1..Len(winners) |-> 50])

SpecRewards == InitRewards /\ [][NextRewards]_vars

\* ======================================================================
\* POST /admin/submit-game: the handler after its validation
\* ======================================================================

Handlers == 1..MaxSubmits

FreeHandler == [pc |-> "free", players |-> <<>>, scores |-> <<>>, nonce |-> 0,
                txGameId |-> 0, gameId |-> 0, dir |-> FALSE, winners |-> <<>>,
                rewards |-> "null"]

\* REWARDS_MANAGER_ADDRESS is not the zero address
rewardsManagerContract == "isActive" \in DOMAIN rewardsManager

\* the wallet sends a transaction: it takes the next nonce
SendFromWallet(r, pc, fields) ==
    submit' = [submit EXCEPT !.reqs[r] = [fields EXCEPT !.pc = pc, !.nonce = submit.nonce],
                             !.nonce = @ + 1]

\* the transaction of handler r is the wallet's next one to be mined
NextToMine(r) == submit.reqs[r].nonce = submit.mined

\* res.json: the handler is over
SubmitGameRespond(r, fields, rewards) ==
    submit' = [submit EXCEPT !.reqs[r] = [fields EXCEPT !.pc = "sent", !.rewards = rewards]]

\* the validated request: gameManagerWithSigner.submitGameResult(players,
\* scores) sends the transaction, the handler waits for its receipt
SubmitGameSend(r, pl) ==
    /\ submit.reqs[r].pc = "free"
    /\ SendFromWallet(r, "awaitReceipt",
                      [FreeHandler EXCEPT !.players = pl.players, !.scores = pl.scores])
    /\ UNCHANGED <<chainVars, dbVars, srvVars, budget, history, qVars, rk, hatNFT, http,
                   rewardsManager>>

\* the transaction is mined and tx.wait() resolves: the handler calls
\* gameManagerContract.getTotalGames()
SubmitGameMined(r) ==
    /\ submit.reqs[r].pc = "awaitReceipt"
    /\ NextToMine(r)
    /\ GameManager_submitGameResultTx(submit.reqs[r].players, submit.reqs[r].scores)
    /\ submit' = [submit EXCEPT !.reqs[r].pc = "awaitTotalGames",
                                !.reqs[r].txGameId = currentGameId,
                                !.mined = @ + 1]
    /\ UNCHANGED rewardsManager

\* getTotalGames() has answered: gameId; with a rewards contract the
\* handler calls isActive()
SubmitGameTotalGames(r) ==
    /\ submit.reqs[r].pc = "awaitTotalGames"
    /\ LET fields == [submit.reqs[r] EXCEPT !.gameId = getTotalGames]
       IN  IF rewardsManagerContract
           THEN submit' = [submit EXCEPT !.reqs[r] = [fields EXCEPT !.pc = "awaitIsActive"]]
           ELSE SubmitGameRespond(r, fields, "null")
    /\ UNCHANGED <<chainVars, dbVars, srvVars, budget, history, qVars, rk, hatNFT, http,
                   rewardsManager>>

\* isActive() has answered
SubmitGameIsActive(r) ==
    /\ submit.reqs[r].pc = "awaitIsActive"
    /\ IF rewardsManager.isActive
       THEN submit' = [submit EXCEPT !.reqs[r].pc = "awaitDir"]
       ELSE SubmitGameRespond(r, submit.reqs[r], "null")
    /\ UNCHANGED <<chainVars, dbVars, srvVars, budget, history, qVars, rk, hatNFT, http,
                   rewardsManager>>

\* isDescendingOrder() has answered: the handler calls numberOfWinners()
SubmitGameDir(r) ==
    /\ submit.reqs[r].pc = "awaitDir"
    /\ submit' = [submit EXCEPT !.reqs[r].pc = "awaitNumberOfWinners",
                                !.reqs[r].dir = isDescendingOrder]
    /\ UNCHANGED <<chainVars, dbVars, srvVars, budget, history, qVars, rk, hatNFT, http,
                   rewardsManager>>

\* playerScores.sort(...).slice(0, numberOfWinners).map(p => p.address)
TopWinners(players, scores, desc, numberOfWinners) ==
    LET playerScores == sortPlayers([n \in 1..Len(players) |->
                                        [address |-> players[n], score |-> scores[n]]], desc)
        count == IF numberOfWinners < Len(playerScores) THEN numberOfWinners
                 ELSE Len(playerScores)
    IN  [n \in 1..count |-> playerScores[n].address]

\* numberOfWinners() has answered: the winners are cut from the sorted
\* players and submitGameResults(gameId, winners) is sent; a call that would
\* revert is rejected before it is sent and the handler answers with the error
SubmitGameNumberOfWinners(r) ==
    /\ submit.reqs[r].pc = "awaitNumberOfWinners"
    /\ LET q == submit.reqs[r]
           winners == TopWinners(q.players, q.scores, q.dir, rewardsManager.numberOfWinners)
           fields == [q EXCEPT !.winners = winners]
       IN  IF submitGameResultsPasses(rewardsManager, Owner, q.gameId, winners)
           THEN SendFromWallet(r, "awaitRewardsTx", fields)
           ELSE SubmitGameRespond(r, fields, "error")
    /\ UNCHANGED <<chainVars, dbVars, srvVars, budget, history, qVars, rk, hatNFT, http,
                   rewardsManager>>

\* submitGameResults is mined and rewardsTx.wait() resolves:
\* batchDistributeRewards(gameId) is sent
SubmitGameRewardsMined(r) ==
    /\ submit.reqs[r].pc = "awaitRewardsTx"
    /\ NextToMine(r)
    /\ LET q == submit.reqs[r]
       IN  /\ RewardsTx(submitGameResultsCall(rewardsManager, Owner, q.gameId, q.winners))
           /\ submit' = [submit EXCEPT !.reqs[r].pc = "awaitDistributeTx",
                                       !.reqs[r].nonce = submit.nonce,
                                       !.nonce = @ + 1,
                                       !.mined = @ + 1]

\* batchDistributeRewards is mined and distributeTx.wait() resolves
SubmitGameDistributeMined(r) ==
    /\ submit.reqs[r].pc = "awaitDistributeTx"
    /\ NextToMine(r)
    /\ LET q == submit.reqs[r]
       IN  /\ RewardsTx(batchDistributeRewardsCall(rewardsManager, Owner, q.gameId))
           /\ submit' = [submit EXCEPT !.reqs[r].pc = "sent",
                                       !.reqs[r].rewards = "distributed",
                                       !.mined = @ + 1]

\* ======================================================================
\* Specification of POST /admin/submit-game
\* ======================================================================

\* the rewards contract of the server: none, deployed and not configured, or
\* configured for one winner and funded
RewardsContracts ==
    { NoRewardsManager,
      DeployedRewardsManager,
      [DeployedRewardsManager EXCEPT !.totalRewardAmount = 100, !.numberOfWinners = 1,
                                     !.percent = <<100, 30, 20>>, !.isActive = TRUE,
                                     !.balance = MaxBalance] }

InitSubmit ==
    /\ InitDeployed
    /\ budget = [toggles |-> 0, equips |-> 0, faults |-> 0, restarts |-> 0, deliveries |-> 0,
                 queries |-> 0]
    /\ rk = NoRank
    /\ http = NoHttp
    /\ hatNFT = [ownerOf |-> [t \in Tokens |-> ZeroAddress], nextTokenId |-> 1,
                 gameManager |-> "GameManager"]
    /\ rewardsManager \in RewardsContracts
    /\ submit = [nonce |-> 0, mined |-> 0, reqs |-> [r \in Handlers |-> FreeHandler]]

NextSubmit ==
    \/ \E r \in Handlers, pl \in Payloads : SubmitGameSend(r, pl)
    \/ \E r \in Handlers : SubmitGameMined(r)
    \/ \E r \in Handlers : SubmitGameTotalGames(r)
    \/ \E r \in Handlers : SubmitGameIsActive(r)
    \/ \E r \in Handlers : SubmitGameDir(r)
    \/ \E r \in Handlers : SubmitGameNumberOfWinners(r)
    \/ \E r \in Handlers : SubmitGameRewardsMined(r)
    \/ \E r \in Handlers : SubmitGameDistributeMined(r)

SpecSubmit == InitSubmit /\ [][NextSubmit]_vars

\* ======================================================================
\* The serving layer: rateLimit, sanitizeInput, adminAuth, ipWhitelist and
\* the admin endpoints
\* ======================================================================

\* the environment of the process (.env)
ADMIN_API_KEY == http.env.ADMIN_API_KEY
PRIVATE_KEY == http.env.PRIVATE_KEY
ALLOWED_IPS == http.env.ALLOWED_IPS

\* JSON values of a request body
Undefined == [type |-> "undefined"]
Num(n) == [type |-> "number", value |-> n]
Str(s) == [type |-> "string", text |-> s]
Arr(items) == [type |-> "array", items |-> items]

Field(body, name) == IF name \in DOMAIN body THEN body[name] ELSE Undefined

isArray(v) == v.type = "array"

\* !v of JavaScript
Falsy(v) ==
    \/ v.type = "undefined"
    \/ v.type = "number" /\ v.value = 0
    \/ v.type = "string" /\ v.text = ""

\* String.prototype.trim on the strings drawn
trim(s) == IF s = " 0xA " THEN "0xA" ELSE s

\* sanitizeInput: strings are trimmed, arrays and objects sanitized in depth
RECURSIVE sanitize(_)
sanitize(v) ==
    IF v.type = "string" THEN Str(trim(v.text))
    ELSE IF v.type = "array" THEN Arr([n \in 1..Len(v.items) |-> sanitize(v.items[n])])
    ELSE v

sanitizeInput(body) == [name \in DOMAIN body |-> sanitize(body[name])]

\* ethers.utils.isAddress
isAddress(v) == v.type = "string" /\ v.text \in {"0xA", "0xB"}

\* rateLimit: what the middleware does to rateLimitMap for a request of
\* clientIp at time now, and whether it calls next()
RateLimitStep(map, clientIp, now, counted) ==
    LET windowStart == now - RATE_LIMIT_WINDOW_MS
        seen == IF clientIp \in DOMAIN map THEN map ELSE (clientIp :> <<>>) @@ map
        requests == seen[clientIp]
        validRequests == SelectSeq(requests, LAMBDA timestamp : timestamp > windowStart)
    IN  IF Len(validRequests) >= RATE_LIMIT_REQUESTS
        THEN [next |-> FALSE,
              map |-> IF counted THEN [seen EXCEPT ![clientIp] = Append(validRequests, now)]
                                 ELSE seen]
        ELSE [next |-> TRUE, map |-> [seen EXCEPT ![clientIp] = Append(validRequests, now)]]

\* a limiter that also records the requests it rejects
rateLimit_CountsRejected(map, clientIp, now) == RateLimitStep(map, clientIp, now, TRUE)

rateLimit(map, clientIp, now) == RateLimitStep(map, clientIp, now, FALSE)

\* String.prototype.replace('Bearer ', '') on the header values drawn
replaceBearer(s) ==
    IF s = "Bearer secret" THEN "secret"
    ELSE IF s = "Bearer wrong" THEN "wrong"
    ELSE s

\* req.headers['x-api-key'] || req.headers['authorization']?.replace(...)
apiKeyOf(headers) ==
    IF headers.xApiKey # None /\ headers.xApiKey # Some("")
    THEN headers.xApiKey
    ELSE IF headers.authorization # None
         THEN Some(replaceBearer(headers.authorization[1]))
         ELSE None

\* an authentication that only asks for some key
adminAuth_AnyKey(headers) ==
    IF ADMIN_API_KEY = None THEN 503
    ELSE IF apiKeyOf(headers) \in {None, Some("")} THEN 401
    ELSE 0

\* adminAuth: the status it answers with, 0 when it calls next()
adminAuth(headers) ==
    IF ADMIN_API_KEY = None THEN 503
    ELSE LET apiKey == apiKeyOf(headers)
         IN  IF apiKey \in {None, Some("")} \/ apiKey # ADMIN_API_KEY THEN 401
             ELSE 0

\* ipWhitelist: the status it answers with, 0 when it calls next()
ipWhitelist(clientIp) ==
    IF ALLOWED_IPS = {} THEN 0
    ELSE IF clientIp \notin ALLOWED_IPS /\ "0.0.0.0" \notin ALLOWED_IPS THEN 403
    ELSE 0

\* what a request comes to: its status and the transactions it sent
Outcome(status, sent) == [status |-> status, sent |-> sent]

\* a transaction of the signer: the call rejects before anything is sent,
\* or the transaction is sent and its confirmation fails or succeeds
SendTx(name) == {Outcome(500, <<>>), Outcome(500, <<name>>), Outcome(200, <<name>>)}

\* a submit-game validation without the check of the scores
SubmitGameStatus_NoScoreCheck(body) ==
    LET players == Field(body, "players")
        scores == Field(body, "scores")
    IN  IF Falsy(players) \/ Falsy(scores) \/ ~isArray(players) \/ ~isArray(scores)
        THEN 400
        ELSE IF Len(players.items) # Len(scores.items) THEN 400
        ELSE IF Len(players.items) = 0 \/ Len(players.items) > 7 THEN 400
        ELSE IF \E n \in 1..Len(players.items) : ~isAddress(players.items[n]) THEN 400
        ELSE 0

\* the validation of POST /admin/submit-game: 400, or 0 when it passes
SubmitGameStatus(body) ==
    LET players == Field(body, "players")
        scores == Field(body, "scores")
    IN  IF Falsy(players) \/ Falsy(scores) \/ ~isArray(players) \/ ~isArray(scores)
        THEN 400
        ELSE IF Len(players.items) # Len(scores.items) THEN 400
        ELSE IF Len(players.items) = 0 \/ Len(players.items) > 7 THEN 400
        ELSE IF \E n \in 1..Len(players.items) : ~isAddress(players.items[n]) THEN 400
        ELSE IF \E n \in 1..Len(scores.items) :
                   \/ scores.items[n].type # "number"
                   \/ scores.items[n].value < 0
             THEN 400
        ELSE 0

\* POST /admin/submit-game after the middleware
SubmitGame(body) ==
    IF ~PRIVATE_KEY THEN {Outcome(403, <<>>)}
    ELSE IF SubmitGameStatus(body) # 0 THEN {Outcome(SubmitGameStatus(body), <<>>)}
    ELSE {Outcome(500, <<>>),
          Outcome(500, <<"submitGameResult">>),
          Outcome(200, <<"submitGameResult">>),
          \* rewards are active: the results are submitted and distributed
          Outcome(200, <<"submitGameResult", "submitGameResults">>),
          Outcome(200, <<"submitGameResult", "submitGameResults", "batchDistributeRewards">>)}

\* POST /admin/toggle-scoring after the middleware
ToggleScoring ==
    IF ~PRIVATE_KEY THEN {Outcome(403, <<>>)}
    ELSE SendTx("toggleScoreOrdering")

\* POST /admin/submit-rewards-results after the middleware
SubmitRewardsResults(body) ==
    IF ~PRIVATE_KEY THEN {Outcome(403, <<>>)}
    ELSE IF Field(body, "gameId").type = "undefined" \/ ~isArray(Field(body, "winners"))
         THEN {Outcome(400, <<>>)}
    ELSE SendTx("submitGameResults")

\* POST /admin/distribute-rewards after the middleware
DistributeRewards(body) ==
    IF ~PRIVATE_KEY THEN {Outcome(403, <<>>)}
    ELSE IF Field(body, "gameId").type = "undefined" THEN {Outcome(400, <<>>)}
    ELSE IF ~Falsy(Field(body, "player")) THEN SendTx("distributeReward")
    ELSE SendTx("batchDistributeRewards")

\* POST /admin/distribute-leaderboard-rewards after the middleware
DistributeLeaderboardRewards(body) ==
    LET winners == Field(body, "winners")
        amounts == Field(body, "amounts")
    IN  IF ~PRIVATE_KEY THEN {Outcome(403, <<>>)}
        ELSE IF ~isArray(winners) \/ ~isArray(amounts) THEN {Outcome(400, <<>>)}
        ELSE IF Len(winners.items) # Len(amounts.items) THEN {Outcome(400, <<>>)}
        ELSE IF Len(winners.items) = 0 \/ Len(winners.items) > 10 THEN {Outcome(400, <<>>)}
        ELSE IF \E n \in 1..Len(winners.items) : ~isAddress(winners.items[n])
             THEN {Outcome(400, <<>>)}
        ELSE IF \E n \in 1..Len(amounts.items) :
                   amounts.items[n].type \notin {"string", "number"}
             THEN {Outcome(400, <<>>)}
        ELSE SendTx("distributeLeaderboardRewards")

AdminPaths ==
    {"/admin/submit-game", "/admin/toggle-scoring", "/admin/submit-rewards-results",
     "/admin/distribute-rewards", "/admin/distribute-leaderboard-rewards"}

\* the route of an admin path: adminAuth, ipWhitelist, then the handler
AdminRoute(req, body) ==
    IF adminAuth(req.headers) # 0 THEN {Outcome(adminAuth(req.headers), <<>>)}
    ELSE IF ipWhitelist(req.ip) # 0 THEN {Outcome(ipWhitelist(req.ip), <<>>)}
    ELSE IF req.path = "/admin/submit-game" THEN SubmitGame(body)
    ELSE IF req.path = "/admin/toggle-scoring" THEN ToggleScoring
    ELSE IF req.path = "/admin/submit-rewards-results" THEN SubmitRewardsResults(body)
    ELSE IF req.path = "/admin/distribute-rewards" THEN DistributeRewards(body)
    ELSE DistributeLeaderboardRewards(body)

\* a request goes through rateLimit, sanitizeInput and its route; GET / stands
\* for the public routes
HandleRequest(req) ==
    /\ http.served < MaxRequests
    /\ req.path \in AdminPaths => http.adminServed < MaxAdminRequests
    /\ LET limited == rateLimit(http.rateLimitMap, req.ip, http.now)
           outcomes == IF ~limited.next THEN {Outcome(429, <<>>)}
                       ELSE IF req.path \in AdminPaths
                            THEN AdminRoute(req, sanitizeInput(req.body))
                            ELSE {Outcome(200, <<>>)}
       IN  \E out \in outcomes :
              http' = [http EXCEPT
                          !.rateLimitMap = limited.map,
                          !.served = @ + 1,
                          !.adminServed = IF req.path \in AdminPaths THEN @ + 1 ELSE @,
                          !.admitted = IF out.status = 429 THEN @
                                       ELSE Append(@, [ip |-> req.ip, time |-> http.now]),
                          !.last = [req |-> req, status |-> out.status, sent |-> out.sent]]
    /\ UNCHANGED <<chainVars, dbVars, srvVars, budget, history, qVars, rk, hatNFT,
                   rewardsManager, submit>>

\* Date.now() moves on
Tick ==
    /\ http.now < MaxTime
    /\ http' = [http EXCEPT !.now = @ + 1]
    /\ UNCHANGED <<chainVars, dbVars, srvVars, budget, history, qVars, rk, hatNFT,
                   rewardsManager, submit>>

\* ======================================================================
\* Specification of the serving layer
\* ======================================================================

ClientIps == {"ip1", "ip2"}

Headers ==
    { [xApiKey |-> None, authorization |-> None],
      [xApiKey |-> Some("secret"), authorization |-> None],
      [xApiKey |-> Some("wrong"), authorization |-> None],
      [xApiKey |-> None, authorization |-> Some("Bearer secret")],
      [xApiKey |-> None, authorization |-> Some("Bearer wrong")],
      [xApiKey |-> Some(""), authorization |-> Some("Bearer secret")] }

Repeat(v, n) == [m \in 1..n |-> v]

\* bodies of POST /admin/submit-game
SubmitGameBodies ==
    { [scores |-> Arr(<<Num(100)>>)],
      [players |-> Str("0xA"), scores |-> Arr(<<Num(100)>>)],
      [players |-> Arr(<<Str("0xA")>>), scores |-> Num(100)],
      [players |-> Arr(<<Str("0xA")>>), scores |-> Arr(<<Num(100), Num(50)>>)],
      [players |-> Arr(<<>>), scores |-> Arr(<<>>)],
      [players |-> Arr(Repeat(Str("0xA"), 8)), scores |-> Arr(Repeat(Num(100), 8))],
      [players |-> Arr(<<Str("invalid-address"), Str("0xB")>>),
       scores |-> Arr(<<Num(100), Num(50)>>)],
      [players |-> Arr(<<Str("0xA")>>), scores |-> Arr(<<Num(0 - 1)>>)],
      [players |-> Arr(<<Str("0xA"), Str("0xB")>>), scores |-> Arr(<<Num(100), Str("50")>>)],
      [players |-> Arr(<<Str(" 0xA "), Str("0xB")>>), scores |-> Arr(<<Num(100), Num(0)>>)],
      [players |-> Arr(Repeat(Str("0xA"), 7)), scores |-> Arr(Repeat(Num(100), 7))] }

\* bodies of the reward endpoints
RewardBodies ==
    { [winners |-> Arr(<<Str("0xA")>>)],
      [gameId |-> Num(1), winners |-> Arr(<<Str("0xA")>>), amounts |-> Arr(<<Str("10")>>)],
      [gameId |-> Num(1), player |-> Str("0xA"), winners |-> Str("0xA"),
       amounts |-> Arr(<<Num(10)>>)] }

\* the bodies drawn for a path: none for the paths that read none
BodiesOf(path) ==
    IF path = "/admin/submit-game" THEN SubmitGameBodies
    ELSE IF path \in {"/", "/admin/toggle-scoring"} THEN {<<>>}
    ELSE RewardBodies

Requests ==
    UNION { { [ip |-> ip, path |-> path, headers |-> headers, body |-> body] :
                ip \in ClientIps, headers \in Headers, body \in BodiesOf(path) } :
            path \in AdminPaths \cup {"/"} }

\* the environment read at startup, no request served yet
InitHttp ==
    /\ InitDeployed
    /\ budget = [toggles |-> 0, equips |-> 0, faults |-> 0, restarts |-> 0, deliveries |-> 0,
                 queries |-> 0]
    /\ rk = NoRank
    /\ hatNFT = NoHatNFT
    /\ rewardsManager = NoRewardsManager
    /\ submit = NoSubmit
    /\ \E key \in {None, Some("secret")}, signer \in BOOLEAN, ips \in {{}, {"ip1"}} :
          http = [env |-> [ADMIN_API_KEY |-> key, PRIVATE_KEY |-> signer, ALLOWED_IPS |-> ips],
                  rateLimitMap |-> <<>>, now |-> 0, served |-> 0, adminServed |-> 0,
                  admitted |-> <<>>,
                  last |-> [status |-> 0, sent |-> <<>>]]

NextHttp ==
    \/ \E req \in Requests : HandleRequest(req)
    \/ Tick

SpecHttp == InitHttp /\ [][NextHttp]_vars

\* ======================================================================
\* Properties of the synchronizer
\* ======================================================================

InFlight(gameId) == \E k \in Slots : ~Idle(k) /\ inv[k].gameId = gameId

\* the step uses up an injected fault
Faulted == budget'.faults < budget.faults

\* no fault was injected and the process was never shut down
Undisturbed == budget.faults = MaxFaults /\ budget.restarts = MaxRestarts

\* the stored games whose event lists the player
GamesListing(address) ==
    Cardinality({n \in 1..Len(games) :
        \E m \in 1..Len(chainEvents[games[n].game_id].players) :
            chainEvents[games[n].game_id].players[m] = address})

\* C1: ingesting one event twice, the second invocation starting after the
\* first or while it is suspended, leaves the store as one ingestion does:
\* one game row, playerCount participant rows, and each participant with as
\* many games counted as stored games list the player.
C1_IdempotentIngestion ==
    \A g \in 1..Len(chainEvents) :
        (Undisturbed /\ gameExists(g) /\ \A h \in 1..Len(chainEvents) : ~InFlight(h))
            => /\ Len(GameRows(g)) = 1
               /\ Len(ParticipantsOf(g)) = chainEvents[g].playerCount
               /\ \A n \in 1..chainEvents[g].playerCount :
                     LET address == chainEvents[g].players[n]
                     IN  /\ address \in DOMAIN player_stats
                         /\ player_stats[address].total_games = GamesListing(address)

\* C2: a storage fault in the middle of writing event E during catch-up
\* leaves the checkpoint at its value before E, and the next catch-up run
\* ingests E completely, exactly once.
C2_CheckpointSafety ==
    \A g \in DOMAIN history.faulted :
        /\ (history.faulted[g] = "faulted" /\ ~(phase = "CATCHING_UP"))
              => /\ sync_state.last_synced_game_id < g
                 /\ sync_state.last_synced_block < chainEvents[g].blockNumber
        /\ history.faulted[g] = "retried"
              => /\ Len(GameRows(g)) = 1
                 /\ Len(ParticipantsOf(g)) = chainEvents[g].playerCount

\* C3: the rows of one event are one atomic unit: when the processing of an
\* event fails, none of its rows remain in the store.
C3_AtomicUnit ==
    \A k \in Slots :
        (phase = "CATCHING_UP" /\ inv[k].pc = "done" /\ inv[k].result = "failed")
            => /\ ~gameExists(inv[k].gameId)
               /\ ParticipantsOf(inv[k].gameId) = <<>>

\* C4: when overlapping invocations of syncGameFromEvent ingest the same
\* event, the games table holds exactly one row for that game id, whatever
\* the interleaving.
C4_ExactlyOneGameRow ==
    /\ \A g \in 1..Len(chainEvents) : Len(GameRows(g)) <= 1
    /\ \A k \in Slots : inv[k].wroteGame => Len(GameRows(inv[k].gameId)) = 1

\* two invocations of one event have both inserted the game and returned
C4_Witness ==
    \E j, k \in Slots :
        /\ j # k
        /\ inv[j].gameId = inv[k].gameId
        /\ inv[j].pc = "done" /\ inv[j].result = "synced" /\ inv[j].wroteGame
        /\ inv[k].pc = "done" /\ inv[k].result = "synced" /\ inv[k].wroteGame

\* C5: game_participants holds at most one row per (game id, player
\* address) pair, also after overlapping ingestions of one event.
C5_OneRowPerPair ==
    \A m, n \in 1..Len(game_participants) :
        (/\ game_participants[m].game_id = game_participants[n].game_id
         /\ game_participants[m].player_address = game_participants[n].player_address)
            => m = n

\* the fold over stored participant rows, from the empty aggregate
GameRow(gameId) == GameRows(gameId)[1]

RECURSIVE FoldRows(_, _, _)
FoldRows(rows, n, agg) ==
    IF n > Len(rows) THEN agg
    ELSE LET row == rows[n]
             desc == GameRow(row.game_id).is_descending_order = 1
             isWinner == GameRow(row.game_id).winner_address = row.player_address
             improves == IF desc THEN row.score > agg.best_score[1]
                                 ELSE row.score < agg.best_score[1]
             best == IF agg.best_score = None \/ improves THEN Some(row.score)
                                                            ELSE agg.best_score
         IN  FoldRows(rows, n + 1,
                      [best_score |-> best,
                       total_wins |-> agg.total_wins + (IF isWinner THEN 1 ELSE 0),
                       total_games |-> agg.total_games + 1,
                       has_played |-> 1])

EmptyAggregate == [best_score |-> None, total_wins |-> 0, total_games |-> 0, has_played |-> 0]

FoldOfStoredRows(address) == FoldRows(getPlayerGameHistory(address), 1, EmptyAggregate)

\* C6: after the ingestion of each event, also at every intermediate point
\* of a catch-up over several games, each participant's player_stats row
\* is the fold, from the empty aggregate, of the game_participants rows
\* stored so far for that player.
C6_StatsAreFoldOfStoredRows ==
    \A k \in Slots :
        (/\ Undisturbed
         /\ phase = "CATCHING_UP"
         /\ inv[k].pc = "done" /\ inv[k].result = "synced")
            => \A n \in 1..chainEvents[inv[k].gameId].playerCount :
                  LET address == chainEvents[inv[k].gameId].players[n]
                      fold == FoldOfStoredRows(address)
                  IN  /\ address \in DOMAIN player_stats
                      /\ player_stats[address].best_score = fold.best_score
                      /\ player_stats[address].total_wins = fold.total_wins
                      /\ player_stats[address].total_games = fold.total_games
                      /\ player_stats[address].has_played = fold.has_played

\* a step that toggles the direction or handles the toggle's event
ToggleStep ==
    \/ isDescendingOrder' # isDescendingOrder
    \/ history'.orderingHandled # history.orderingHandled

RankedWith(k, desc) ==
    /\ games'[Len(games')].is_descending_order = (IF desc THEN 1 ELSE 0)
    /\ inv'[k].players = sortPlayers(EventPlayers(chainEvents[inv[k].gameId]), desc)

\* C10: a toggle of the scoring direction, and the listener's handling of
\* its ScoreOrderingChanged event, leave every stored game's recorded
\* direction and every stored position unchanged; an ingestion records and
\* ranks with the direction in force when it reads it.
C10_ToggleKeepsStoredGames ==
    [][/\ ToggleStep => (games' = games /\ game_participants' = game_participants)
       /\ \A k \in Slots :
             (inv[k].pc = "awaitDir" /\ inv'[k].pc = "awaitHat")
                => RankedWith(k, isDescendingOrder)]_vars

\* the listener has handled a toggle, a game stored before it keeps its
\* direction and a game ingested after it has the new one
C10_Witness ==
    /\ history.orderingHandled > 0
    /\ \E m, n \in 1..Len(games) :
          /\ m < n
          /\ games[m].is_descending_order # games[n].is_descending_order
          /\ games[n].is_descending_order = (IF isDescendingOrder THEN 1 ELSE 0)
          /\ Len(ParticipantsOf(games[m].game_id)) = games[m].player_count
          /\ Len(ParticipantsOf(games[n].game_id)) = games[n].player_count

\* C11: across catch-up runs, live events and restarts the checkpoint's
\* last_synced_block and last_synced_game_id never decrease.
C11_CheckpointNeverDecreases ==
    [][/\ sync_state'.last_synced_block >= sync_state.last_synced_block
       /\ sync_state'.last_synced_game_id >= sync_state.last_synced_game_id]_vars

\* after a restart a second catch-up has fetched two games, skipped the one
\* stored before the restart and set the checkpoint to the second
C11_Witness ==
    /\ budget.restarts < MaxRestarts
    /\ phase = "LIVE"
    /\ Len(chainEvents) = 2
    /\ sync_state.last_synced_game_id = 2
    /\ sync_state.last_synced_block = chainEvents[2].blockNumber
    /\ gameExists(1) /\ gameExists(2)

\* the game row of g and a participant row for each player of its event
FullyPresent(g) ==
    /\ gameExists(g)
    /\ \A n \in 1..chainEvents[g].playerCount :
          \E m \in 1..Len(game_participants) :
              /\ game_participants[m].game_id = g
              /\ game_participants[m].player_address = chainEvents[g].players[n]

\* C12: whenever the checkpoint names game g > 0, game g and every game
\* before it are fully present in the store: the checkpoint is never ahead
\* of the records it names.
C12_CheckpointNotAhead ==
    \A g \in 1..sync_state.last_synced_game_id : FullyPresent(g)

\* syncHistoricalGames has returned: its query was rejected, or its loop is
\* over and the last invocation it awaited has returned
CatchupReturns ==
    \/ catchup.pc = "awaitQuery"
    \/ /\ catchup.pc = "loop"
       /\ catchup.idx > Len(catchup.events)
       /\ catchup.slot # 0 => inv[catchup.slot].pc = "done"

\* C13: within one process lifetime the phases go DOWN (starting), then
\* CATCHING_UP, then LIVE and never back; the listeners are registered only
\* when syncHistoricalGames has returned, a live invocation starts only in
\* LIVE, and a catch-up starts only at the start of the process.
C13_PhasesInOrder ==
    [][/\ phase' # phase =>
             \/ phase = "DOWN" /\ phase' = "CATCHING_UP"
             \/ phase = "CATCHING_UP" /\ phase' = "LIVE" /\ CatchupReturns
             \/ phase' = "DOWN" /\ budget'.restarts < budget.restarts
       /\ phase' = "LIVE" => catchup' = IdleCatchup
       /\ (catchup'.pc = "awaitQuery" /\ catchup.pc # "awaitQuery") => phase = "DOWN"
       /\ \A k \in Slots :
             (Idle(k) /\ inv'[k].pc = "awaitDir")
                => IF inv'[k].src = "live" THEN phase = "LIVE" /\ phase' = "LIVE"
                                           ELSE phase = "CATCHING_UP"]_vars

\* a catch-up has ingested a game and set the checkpoint, and afterwards a
\* live invocation has ingested another game
C13_Witness ==
    /\ phase = "LIVE"
    /\ sync_state.last_synced_game_id = 1
    /\ \E k \in Slots :
          /\ inv[k].src = "live" /\ inv[k].pc = "done" /\ inv[k].result = "synced"
          /\ inv[k].gameId = 2

\* C14: when the event source cannot be reached at the catch-up of startup
\* (queryFilter rejects), startup fails: the process does not enter LIVE and
\* does not go on serving.
C14_StartupFailsWhenUnreachable ==
    [][(/\ catchup.pc = "awaitQuery" /\ catchup'.pc # "awaitQuery"
        /\ budget'.faults < budget.faults)
          => phase' = "DOWN"]_vars

\* C15: with no faults and a running process every GameSubmitted event on
\* chain is eventually stored as a game, also an event emitted while the
\* catch-up is processing its batch and before the listeners are registered
\* (as long as the listener's deliveries are not used up).
C15_EveryEventEventuallyStored ==
    \A g \in 1..MaxGames :
        [](g <= Len(chainEvents) => <>(gameExists(g) \/ budget.deliveries = 0))

C21_FailureStaysInside ==
    [][/\ \A k \in Slots :
             (/\ ~Idle(k) /\ inv[k].src = "catchup"
              /\ inv'[k].pc = "done" /\ inv'[k].result = "failed")
                => phase' = "CATCHING_UP" /\ catchup' = catchup
       /\ (catchup.pc = "loop" /\ phase' = "LIVE")
             => catchup.idx > Len(catchup.events)
       /\ (catchup.pc = "loop" /\ catchup'.pc = "loop" /\ catchup' # catchup)
             => /\ catchup'.idx = catchup.idx + 1
                /\ catchup'.events = catchup.events
                /\ LET g == catchup.events[catchup.idx]
                   IN  \/ gameExists(g) /\ inv' = inv
                       \/ inv'[1].pc = "awaitDir" /\ inv'[1].gameId = g]_vars

\* the first event of a batch of two has failed and left no complete game,
\* and the second event of the same batch has been synced
C21_Witness ==
    /\ budget.restarts = MaxRestarts
    /\ phase = "CATCHING_UP"
    /\ catchup.events = <<1, 2>>
    /\ ~FullyPresent(1)
    /\ inv[1].pc = "done" /\ inv[1].gameId = 2 /\ inv[1].result = "synced"
    /\ FullyPresent(2)

\* a live invocation for game g has returned on a rejected call to the
\* event source, before it wrote anything
LiveFailed(g) ==
    \E k \in Slots :
        /\ inv[k].pc = "done" /\ inv[k].src = "live" /\ inv[k].gameId = g
        /\ inv[k].result = "failed" /\ ~inv[k].wroteGame

\* C22: when the processing of an event delivered in the LIVE phase fails
\* because the event source cannot be reached, the server retries it: the
\* event's game is eventually stored.
C22_FailedLiveEventRetried ==
    \A g \in 1..MaxGames : [](LiveFailed(g) => <>gameExists(g))

\* every player of the event that invocation k processes has a row of the
\* event's game in game_participants
ParticipantsWritten(k) ==
    \A n \in 1..Len(inv[k].players) :
        \E m \in 1..Len(game_participants) :
            /\ game_participants[m].game_id = inv[k].gameId
            /\ game_participants[m].player_address = inv[k].players[n].address

\* C29: within the processing of one event the writes come in a fixed
\* order. The game row is written by an invocation that has written no
\* participant row yet; a participant row is written by an invocation that
\* has written its game row, and the row's game is in games; player_stats is
\* written by an invocation whose every participant row is in the store; the
\* checkpoint is written by the catch-up when the invocation it awaited last
\* has returned and none is left to start. After every step each row of
\* game_participants names a game that has a row in games.
C29_WritesInOrder ==
    [][/\ games' # games
             => \E k \in Slots :
                   /\ inv[k].pc = "awaitDir" /\ ~inv[k].wroteGame /\ inv[k].i = 0
                   /\ inv'[k].wroteGame
                   /\ games'[Len(games')].game_id = inv[k].gameId
       /\ game_participants' # game_participants
             => /\ Len(game_participants') = Len(game_participants) + 1
                /\ LET row == game_participants'[Len(game_participants')]
                   IN  /\ gameExists(row.game_id)
                       /\ \E k \in Slots :
                             /\ inv[k].pc \in {"awaitHat", "awaitHatType"}
                             /\ inv[k].wroteGame
                             /\ inv[k].gameId = row.game_id
                             /\ inv'[k] # inv[k]
       /\ player_stats' # player_stats
             => \E k \in Slots :
                   /\ inv[k].pc = "awaitStatsHat" /\ inv'[k] # inv[k]
                   /\ inv[k].wroteGame
                   /\ ParticipantsWritten(k)
       /\ sync_state' # sync_state
             => /\ phase = "CATCHING_UP" /\ phase' = "LIVE"
                /\ catchup.idx > Len(catchup.events)
                /\ \A k \in Slots : inv[k].src = "catchup" => inv[k].pc = "done"
       /\ \A m \in 1..Len(game_participants') :
             \E n \in 1..Len(games') :
                 games'[n].game_id = game_participants'[m].game_id]_vars

\* a catch-up has written the game row of game 1, a row for each of its two
\* players, a player_stats row for each of them and then the checkpoint
C29_Witness ==
    /\ phase = "LIVE"
    /\ sync_state.last_synced_game_id = 1
    /\ chainEvents[1].playerCount = 2
    /\ FullyPresent(1)
    /\ \A n \in 1..2 : chainEvents[1].players[n] \in DOMAIN player_stats
    /\ inv[1].src = "catchup" /\ inv[1].result = "synced"

\* invocation k writes its game row in this step
WritesGameRow(k) ==
    inv[k].pc = "awaitDir" /\ ~inv[k].wroteGame /\ inv'[k].wroteGame

\* C30: game rows are written in the order of the event source during
\* catch-up: an invocation for an event of the batch starts only when no
\* earlier invocation of the catch-up is still running, and it is for the
\* batch's next event. During live tailing they are written in arrival
\* order: a live invocation writes its game row only when no invocation of
\* an event that arrived earlier has its own game row still to write.
C30_GameRowsInOrder ==
    [][\A k \in Slots :
          /\ (Idle(k) /\ inv'[k].pc = "awaitDir" /\ inv'[k].src = "catchup")
                => /\ \A j \in Slots : inv[j].src = "catchup" => Idle(j)
                   /\ inv'[k].gameId = catchup.events[catchup.idx]
                   /\ \A n \in 1..(catchup.idx - 1) :
                         catchup.events[n] < inv'[k].gameId
          /\ (WritesGameRow(k) /\ inv[k].src = "live")
                => \A j \in Slots :
                      (/\ inv[j].src = "live" /\ inv[j].pc = "awaitDir"
                       /\ inv[j].gameId # inv[k].gameId)
                         => inv[j].arrival > inv[k].arrival]_vars

\* C31: an event ingested in the LIVE phase advances the checkpoint as one
\* ingested in catch-up does: once a live invocation has returned with its
\* game synced, last_synced_game_id and last_synced_block are at least the
\* game id and the block of its event.
C31_LiveAdvancesCheckpoint ==
    \A k \in Slots :
        (inv[k].pc = "done" /\ inv[k].src = "live" /\ inv[k].result = "synced")
            => /\ sync_state.last_synced_game_id >= inv[k].gameId
               /\ sync_state.last_synced_block >= chainEvents[inv[k].gameId].blockNumber

\* C32: a game row, once created, is never changed and never deleted: every
\* row of games before a step is a row of games after it, with the same
\* block number, transaction hash, winner, player count and direction.
C32_GameRowsImmutable ==
    [][\A n \in 1..Len(games) :
          \E m \in 1..Len(games') : games'[m] = games[n]]_vars

\* C34: when a game row with the event's game id exists at the start of
\* syncGameFromEvent, the invocation returns at once: no invocation that
\* goes on to read the chain starts for a stored game, and the step that
\* hands such an event to syncGameFromEvent, in the catch-up loop or in the
\* listener, leaves every invocation and every table as they were.
C34_ExistingGameSkipped ==
    [][/\ \A k \in Slots :
             (Idle(k) /\ inv'[k].pc = "awaitDir") => ~gameExists(inv'[k].gameId)
       /\ (/\ catchup.pc = "loop" /\ catchup'.pc = "loop"
           /\ catchup'.idx = catchup.idx + 1
           /\ gameExists(catchup.events[catchup.idx]))
             => inv' = inv /\ UNCHANGED dbVars /\ UNCHANGED chainVars
       /\ budget'.deliveries < budget.deliveries
             => /\ UNCHANGED dbVars /\ UNCHANGED chainVars
                /\ \/ inv' = inv
                   \/ \E k \in Slots :
                         /\ Idle(k) /\ inv'[k].pc = "awaitDir"
                         /\ \A j \in Slots \ {k} : inv'[j] = inv[j]]_vars

\* the listener was handed an event whose game the catch-up had stored, and
\* no live invocation has run
C34_Witness ==
    /\ budget.restarts = MaxRestarts
    /\ phase = "LIVE"
    /\ budget.deliveries < MaxDeliveries
    /\ gameExists(1)
    /\ \A k \in Slots : inv[k].src # "live"

\* no invocation is running, and no call or write has failed and no process
\* has been stopped so far
QuietAndUnfailed ==
    /\ \A k \in Slots : Idle(k)
    /\ budget.faults = MaxFaults
    /\ budget.restarts = MaxRestarts

RowsOfPlayer(address) ==
    SelectSeq(game_participants, LAMBDA r : r.player_address = address)

\* C35: whenever no ingestion is in progress and none has failed, every
\* player with rows in game_participants has a player_stats row, and each
\* player's total_games equals the number of game_participants rows
\* stored for the player.
C35_TotalGamesIsRowCount ==
    QuietAndUnfailed
        => \A address \in Players :
              /\ Len(RowsOfPlayer(address)) > 0 => address \in DOMAIN player_stats
              /\ address \in DOMAIN player_stats
                    => player_stats[address].total_games = Len(RowsOfPlayer(address))

\* two live invocations for different games of the same player have run
\* side by side and both have returned
C35_Witness ==
    /\ QuietAndUnfailed
    /\ inv[1].src = "live" /\ inv[2].src = "live"
    /\ inv[1].result = "synced" /\ inv[2].result = "synced"
    /\ inv[1].gameId # inv[2].gameId
    /\ Len(RowsOfPlayer("A")) = 2

\* C36: for every fully stored game the stored winner_address is the
\* player_address of the participant stored at position 1, also when the
\* scoring direction was toggled between the game's submission on chain and
\* its ingestion.
C36_WinnerIsPositionOne ==
    \A n \in 1..Len(games) :
        FullyPresent(games[n].game_id)
            => \A m \in 1..Len(game_participants) :
                  (/\ game_participants[m].game_id = games[n].game_id
                   /\ game_participants[m].position = 1)
                     => game_participants[m].player_address = games[n].winner_address

\* ======================================================================
\* Properties of the ranking
\* ======================================================================

\* C8: for an event with N participants the positions assigned are exactly
\* the integers 1..N, each assigned to exactly one participant.
C8_PositionsArePermutation ==
    rk.state = "ranked"
        => /\ Len(rk.ranked) = rk.event.playerCount
           /\ {rk.ranked[n].position : n \in 1..Len(rk.ranked)} = 1..rk.event.playerCount
           /\ \A m, n \in 1..Len(rk.ranked) :
                 rk.ranked[m].position = rk.ranked[n].position => m = n

\* an event with several participants, two of them tied, has been ranked
C8_Witness ==
    /\ rk.state = "ranked"
    /\ rk.event.playerCount = MaxRankPlayers
    /\ rk.event.scores[1] = rk.event.scores[2]

\* the entries of one score, and the addresses of a list of entries
WithScore(entries, score) == SelectSeq(entries, LAMBDA e : e.score = score)

Addresses(entries) == [n \in 1..Len(entries) |-> entries[n].address]

RankedEntries ==
    [n \in 1..Len(rk.ranked) |->
        [address |-> rk.ranked[n].playerAddress, score |-> rk.ranked[n].score]]

\* C9: the ranking is by score, descending when higher is better and
\* ascending otherwise, and participants with equal scores keep the order
\* they have in the event's players array.
C9_OrderedByScoreStable ==
    rk.state = "ranked"
        => /\ \A n \in 1..Len(rk.ranked) : rk.ranked[n].position = n
           /\ \A m, n \in 1..Len(rk.ranked) :
                 m < n => IF rk.desc THEN rk.ranked[m].score >= rk.ranked[n].score
                                     ELSE rk.ranked[m].score <= rk.ranked[n].score
           /\ \A score \in Scores :
                 Addresses(WithScore(RankedEntries, score))
                     = Addresses(WithScore(EventPlayers(rk.event), score))

\* ascending, players [A, B] with scores [50, 50]: A is first, B second
C9_Witness ==
    /\ rk.state = "ranked"
    /\ ~rk.desc
    /\ rk.event.players = <<"A", "B">>
    /\ rk.event.scores = <<50, 50>>
    /\ rk.ranked[1].playerAddress = "A" /\ rk.ranked[1].position = 1
    /\ rk.ranked[2].playerAddress = "B" /\ rk.ranked[2].position = 2

\* ======================================================================
\* Properties of the query service
\* ======================================================================

\* what a response says of the game, the provenance tag left out
Accessory(player) ==
    [equippedHat |-> player.equippedHat,
     hatType |-> IF "hatType" \in DOMAIN player THEN player.hatType ELSE "null"]

ResultOf(response) ==
    [winner |-> response.winner,
     direction |-> response.scoringMode,
     players |-> [n \in 1..Len(response.players) |->
                    [address |-> response.players[n].address,
                     score |-> response.players[n].score,
                     position |-> response.players[n].position,
                     accessory |-> Accessory(response.players[n])]]]

FullyStored(gameId) ==
    /\ gameExists(gameId)
    /\ ~InFlight(gameId)
    /\ Len(ParticipantsOf(gameId)) = GameRows(gameId)[1].player_count

\* a step of a read: a request is taken up, resumed or answered
ReadStep == query' # query \/ responses' # responses \/ answers' # answers

\* C16: no read of the query service (player stats, game, leaderboard,
\* db info) changes a row of games, game_participants, player_stats or
\* sync_state, also on the blockchain fallback path.
C16_ReadsNeverWrite ==
    [][ReadStep => dbVars' = dbVars]_vars

\* a read has been answered from the blockchain fallback while the store
\* holds rows
C16_Witness ==
    /\ games # <<>>
    /\ DOMAIN player_stats # {}
    /\ \/ \E g \in DOMAIN responses :
             responses[g].status = 200 /\ responses[g].source = "blockchain"
       \/ \E a \in DOMAIN answers \cap Players :
             answers[a].status = 200 /\ answers[a].source = "blockchain"

\* game g is answered in this step: its response is new, or the request
\* for it that was in flight is over
GameAnswered(g) ==
    /\ g \in DOMAIN responses'
    /\ \/ g \notin DOMAIN responses
       \/ responses'[g] # responses[g]
       \/ /\ query.pc \in {"awaitEvents", "awaitDir", "awaitHat", "awaitHatType"}
          /\ query.gameId = g
          /\ query' = NoQuery

\* the stats of address a are answered in this step
StatsAnswered(a) ==
    /\ a \in DOMAIN answers'
    /\ \/ a \notin DOMAIN answers
       \/ answers'[a] # answers[a]
       \/ /\ query.pc \in {"statsAwaitDbHatType", "statsAwaitChain", "statsAwaitEvents"}
          /\ query.address = a
          /\ query' = NoQuery

\* C17: a game or player-stats result is tagged 'database' exactly when the
\* store returned a record for the identifier; after a store miss or a
\* store exception the result is computed from the chain and tagged
\* 'blockchain'.
C17_ProvenanceTag ==
    [][/\ \A g \in 1..MaxGames :
             /\ (GameAnswered(g) /\ responses'[g].status = 200)
                   => IF query.pc = "idle"
                      THEN /\ responses'[g].source = "database"
                           /\ getGame(g) # None /\ ~Faulted
                      ELSE /\ responses'[g].source = "blockchain"
                           /\ query.pc \in {"awaitHat", "awaitHatType"}
                           /\ query.gameId = g
             /\ (query.pc = "idle" /\ query'.pc = "awaitEvents" /\ query'.gameId = g)
                   => getGame(g) = None \/ Faulted
       /\ \A a \in Players :
             /\ (StatsAnswered(a) /\ answers'[a].status = 200)
                   => IF query.pc \in {"idle", "statsAwaitDbHatType"}
                      THEN answers'[a].source = "database"
                      ELSE /\ answers'[a].source = "blockchain"
                           /\ query.pc = "statsAwaitEvents"
                           /\ query.address = a
             /\ (query.pc = "idle" /\ (StatsAnswered(a) \/ query'.pc = "statsAwaitDbHatType")
                    /\ query'.pc # "statsAwaitChain" /\ budget'.queries < budget.queries
                    /\ (query'.pc = "statsAwaitDbHatType" => query'.address = a))
                   => getPlayerStats(a).stats # None /\ ~Faulted
             /\ (query.pc = "idle" /\ query'.pc = "statsAwaitChain" /\ query'.address = a)
                   => getPlayerStats(a).stats = None \/ Faulted]_vars

\* after a fault a read was answered from the chain with the tag
\* 'blockchain', and the store holds the identifier it asked for
C17_Witness ==
    /\ budget.faults < MaxFaults
    /\ \/ \E g \in DOMAIN responses :
             /\ responses[g].status = 200 /\ responses[g].source = "blockchain"
             /\ FullyStored(g)
             /\ sync_state.last_synced_game_id >= g
       \/ \E a \in DOMAIN answers \cap Players :
             /\ answers[a].status = 200 /\ answers[a].source = "blockchain"
             /\ a \in DOMAIN player_stats
             /\ sync_state.last_synced_game_id > 0

\* C18: GET /game/:gameId for an identifier neither in the store nor on
\* chain answers 404; it answers 500 only when a chain query of the
\* fallback fails, after the store missed or threw.
C18_NotFoundAndFault ==
    [][\A g \in 1..MaxGames :
          /\ (GameAnswered(g) /\ responses'[g].status = 404)
                => /\ g > Len(chainEvents) /\ ~gameExists(g)
                   /\ query.pc = "awaitEvents" /\ ~Faulted
          /\ (GameAnswered(g) /\ responses'[g].status = 500)
                => query.pc \in {"awaitEvents", "awaitDir"} /\ Faulted
          /\ (query.pc = "awaitEvents" /\ query.gameId = g /\ query' # query
                 /\ g > Len(chainEvents) /\ ~Faulted)
                => GameAnswered(g) /\ responses'[g].status = 404
          /\ GameAnswered(g) => responses'[g].status \in {200, 404, 500}]_vars

\* a game that is nowhere has been answered 404 while another game is on
\* chain and in the store
C18_Witness ==
    /\ \E g \in DOMAIN responses :
          responses[g].status = 404 /\ g > Len(chainEvents) /\ ~gameExists(g)
    /\ games # <<>>

\* r1 may stand before r2: more wins, or as many wins and a best score at
\* least as good under the direction
MayPrecede(r1, r2, desc) ==
    \/ r1.total_wins > r2.total_wins
    \/ /\ r1.total_wins = r2.total_wins
       /\ IF desc THEN ScoreKey(r1) >= ScoreKey(r2) ELSE ScoreKey(r1) <= ScoreKey(r2)

\* C19: getLeaderboard(limit) returns at most limit aggregates, none with
\* has_played false, ordered by total_wins descending and then by
\* best_score, the better score under the active direction first.
C19_LeaderboardOrdered ==
    \A limit \in 1..MaxLimit :
        \A board \in getLeaderboard(limit) :
            /\ Len(board) <= limit
            /\ \A i \in 1..Len(board) : board[i].has_played = 1
            /\ \A i, j \in 1..Len(board) :
                  i < j => MayPrecede(board[i], board[j], isDescendingOrder)

\* C7: for a game on chain but not yet in the store, the result computed by
\* the blockchain fallback (winner, direction, each participant's score,
\* position and accessory) is, apart from the provenance tag, the result
\* served from the store once the game has been ingested, also when the
\* direction is toggled in between.
C7_FallbackEqualsStored ==
    \A g \in DOMAIN responses :
        (responses[g].status = 200 /\ responses[g].source = "blockchain" /\ FullyStored(g))
            => ResultOf(DatabaseResponse(g)) = ResultOf(responses[g])

\* ======================================================================
\* Properties of the serving layer
\* ======================================================================

\* the step serves a request
Served == http'.served # http.served

\* the request carries the configured key, in X-API-Key or as a bearer token
CarriesKey(headers) ==
    /\ ADMIN_API_KEY # None
    /\ \/ headers.xApiKey = ADMIN_API_KEY
       \/ headers.authorization = Some("Bearer " \o ADMIN_API_KEY[1])

Authenticated(headers) ==
    /\ ADMIN_API_KEY # None
    /\ \/ headers.xApiKey = ADMIN_API_KEY
       \/ /\ headers.xApiKey \in {None, Some("")}
          /\ headers.authorization = Some("Bearer " \o ADMIN_API_KEY[1])

\* players or scores is no array, their lengths differ, there are fewer
\* than 1 or more than 7 entries, an address is invalid or a score is
\* negative or no number
InvalidSubmission(body) ==
    LET players == Field(body, "players")
        scores == Field(body, "scores")
    IN  \/ players.type # "array" \/ scores.type # "array"
        \/ /\ players.type = "array" /\ scores.type = "array"
           /\ \/ Len(players.items) # Len(scores.items)
              \/ Len(players.items) < 1 \/ Len(players.items) > 7
              \/ \E n \in 1..Len(players.items) :
                    \/ players.items[n].type # "string"
                    \/ players.items[n].text \notin {"0xA", "0xB"}
              \/ \E n \in 1..Len(scores.items) :
                    \/ scores.items[n].type # "number"
                    \/ scores.items[n].type = "number" /\ scores.items[n].value < 0

\* C24 as stated: an authenticated POST /admin/submit-game with an invalid
\* submission is answered with 400 and sends no transaction.
C24_InvalidSubmissionIs400 ==
    (/\ http.last.status # 0
     /\ http.last.req.path = "/admin/submit-game"
     /\ Authenticated(http.last.req.headers)
     /\ InvalidSubmission(sanitizeInput(http.last.req.body)))
        => http.last.status = 400 /\ http.last.sent = <<>>

\* C24: an authenticated POST /admin/submit-game with an invalid submission
\* (as sanitizeInput leaves it) sends no transaction; it is answered with
\* 429 when the rate limit rejects it, else with 403 when the client's IP is
\* not allowed or no PRIVATE_KEY is configured, else with 400.
C24_InvalidSubmissionRejected ==
    [][(/\ Served
        /\ http'.last.req.path = "/admin/submit-game"
        /\ Authenticated(http'.last.req.headers)
        /\ InvalidSubmission(sanitizeInput(http'.last.req.body)))
          => /\ http'.last.sent = <<>>
             /\ http'.last.status =
                   IF http'.admitted = http.admitted THEN 429
                   ELSE IF ALLOWED_IPS # {} /\ http'.last.req.ip \notin ALLOWED_IPS THEN 403
                   ELSE IF ~PRIVATE_KEY THEN 403
                   ELSE 400]_vars

\* an authenticated submission with a negative score got 400
C24_Witness ==
    /\ http.last.status = 400
    /\ http.last.req.path = "/admin/submit-game"
    /\ Authenticated(http.last.req.headers)
    /\ LET scores == Field(http.last.req.body, "scores")
       IN  /\ scores.type = "array" /\ Len(scores.items) = 1
           /\ scores.items[1].type = "number" /\ scores.items[1].value < 0

\* the requests of ip admitted at a time in (lo, hi]
AdmittedIn(log, ip, lo, hi) ==
    Cardinality({n \in 1..Len(log) : log[n].ip = ip /\ log[n].time > lo /\ log[n].time <= hi})

\* C28: for every client IP and every window of RATE_LIMIT_WINDOW_MS the
\* middleware admits at most RATE_LIMIT_REQUESTS requests; a request gets
\* 429 exactly when the requests admitted in the window ending now already
\* are that many, so the rejected ones count against no window.
C28_RateLimit ==
    [][Served
          => /\ http'.last.status = 429
                   <=> AdmittedIn(http.admitted, http'.last.req.ip,
                                  http.now - RATE_LIMIT_WINDOW_MS, http.now)
                          >= RATE_LIMIT_REQUESTS
             /\ \A ip \in ClientIps, start \in (0 - RATE_LIMIT_WINDOW_MS)..MaxTime :
                   AdmittedIn(http'.admitted, ip, start, start + RATE_LIMIT_WINDOW_MS)
                      <= RATE_LIMIT_REQUESTS]_vars

\* a client was rejected in a full window and admitted again after it
C28_Witness ==
    /\ Len(http.admitted) >= 2
    /\ http.served > Len(http.admitted)
    /\ http.last.status # 429
    /\ \A n \in 1..Len(http.admitted) : http.admitted[n].ip = http.last.req.ip
    /\ http.rateLimitMap[http.last.req.ip] = <<http.now>>

\* ======================================================================
\* Properties of the contracts
\* ======================================================================

\* C25: with the GameManager reference set in HatNFT, after any sequence of
\* mint, transfer, equipHat, unequipHat and unequipHatForPlayer calls every
\* player's equipped hat is 0 or a token the player owns.
C25_EquippedHatIsOwned ==
    hatNFT.gameManager # ZeroAddress
        => \A p \in Players :
              \/ playerStats[p].equippedHat = 0
              \/ hatNFT.ownerOf[playerStats[p].equippedHat] = p

\* a hat was transferred while its owner wore it, and the receiver wears it
C25_Witness ==
    /\ history.autoUnequipped
    /\ \E p \in Players, t \in Tokens :
          /\ hatNFT.ownerOf[t] = p
          /\ playerStats[p].equippedHat = t
          /\ \E q \in Players : q # p /\ playerStats[q].equippedHat = 0

\* the step is a submission, and this is its event
Submitted == Len(chainEvents') = Len(chainEvents) + 1

SubmittedEvent == chainEvents'[Len(chainEvents')]

\* a is strictly better than b under the direction
StrictlyBetter(a, b, desc) == IF desc THEN a > b ELSE a < b

\* C26: the winner of each GameSubmitted event is a player of the game
\* whose score is the best under the direction in force at the submission
\* (the maximum when descending, the minimum when ascending), and among the
\* players with the best score the one listed first.
C26_WinnerIsFirstBest ==
    [][Submitted
          => LET ev == SubmittedEvent
                 best(n) == \A m \in 1..Len(ev.scores) :
                                ~StrictlyBetter(ev.scores[m], ev.scores[n], isDescendingOrder)
             IN  \E n \in 1..Len(ev.players) :
                    /\ ev.winner = ev.players[n]
                    /\ best(n)
                    /\ \A m \in 1..(n - 1) : ~best(m)]_vars

\* in ascending order two players tie for the best score, the first wins
C26_Witness ==
    \E g \in 1..Len(chainEvents) :
        LET ev == chainEvents[g]
        IN  /\ ev.playerCount = 2
            /\ ev.players[1] # ev.players[2]
            /\ ev.scores[1] = ev.scores[2]
            /\ ev.winner = ev.players[1]
            /\ ~isDescendingOrder /\ g = Len(chainEvents)
            /\ playerStats[ev.players[1]].totalWins = 1

\* the scores of player p in the event, in the order listed
ScoresOf(ev, p) == {ev.scores[n] : n \in {m \in 1..Len(ev.players) : ev.players[m] = p}}

\* C27: a player's first game sets bestScore to the game's score (the best
\* of them when the player is listed twice) and hasPlayed to true; a later
\* game changes bestScore only to a score of the game that is strictly
\* better under the direction in force at that submission; totalWins
\* increases for the game's winner only; the stats of a player who is not
\* in the game stay as they are.
C27_StatsUpdate ==
    [][Submitted
          => LET ev == SubmittedEvent
                 desc == isDescendingOrder
             IN  \A p \in Players :
                    LET old == playerStats[p]
                        new == playerStats'[p]
                        mine == ScoresOf(ev, p)
                    IN  IF mine = {} THEN new = old
                        ELSE /\ new.hasPlayed
                             /\ new.equippedHat = old.equippedHat
                             /\ \A s \in mine : ~StrictlyBetter(s, new.bestScore, desc)
                             /\ IF ~old.hasPlayed THEN new.bestScore \in mine
                                ELSE new.bestScore # old.bestScore
                                        => /\ new.bestScore \in mine
                                           /\ StrictlyBetter(new.bestScore, old.bestScore, desc)
                             /\ IF p = ev.winner THEN new.totalWins > old.totalWins
                                                 ELSE new.totalWins = old.totalWins]_vars

\* after a toggle to ascending a player's second game was worse than the
\* first, which the player had won: the best score and the wins stay
C27_Witness ==
    /\ Len(chainEvents) = 2
    /\ ~isDescendingOrder
    /\ \E p \in Players :
          /\ chainEvents[1].players = <<p>> /\ chainEvents[1].scores = <<50>>
          /\ Len(chainEvents[2].players) = 2
          /\ chainEvents[2].players[2] = p /\ chainEvents[2].scores[2] = 100
          /\ chainEvents[2].winner # p
          /\ playerStats[p].bestScore = 50 /\ playerStats[p].totalWins = 1

\* ======================================================================
\* Properties of reads beside the synchronizer
\* ======================================================================

\* C33: a read of a game from the store that runs beside the ingestion of
\* that game finds the game absent or complete: a response built from the
\* database carries as many players as the game's player count, at the
\* positions 1..N.
C33_ReadSeesWholeGame ==
    \A g \in DOMAIN responses :
        (responses[g].status = 200 /\ responses[g].source = "database")
            => /\ Len(responses[g].players) = responses[g].playerCount
               /\ \A n \in 1..Len(responses[g].players) :
                     responses[g].players[n].position = n

\* ======================================================================
\* Properties of RewardsManager
\* ======================================================================

\* the payments of transfers made for game gameId to address p
PaymentsFor(transfers, gameId, p) ==
    SelectSeq(transfers, LAMBDA t : t.gameId = gameId /\ t.to = p)

\* C39: results for a game id are stored at most once: once stored, the
\* game stays stored and its winners are never written again. Over any
\* sequence of calls each address is paid at most once for a game, and a
\* payment for a game is made only in a call sent by the owner when the
\* game's results were already stored.
C39_StoredOncePaidOnce ==
    [][/\ \A g \in rewardsManager.gameResultsStored :
             /\ g \in rewardsManager'.gameResultsStored
             /\ rewardsManager'.winner[g] = rewardsManager.winner[g]
       /\ \A g \in 1..MaxGames, p \in Players \cup {ZeroAddress} :
             Len(PaymentsFor(rewardsManager'.transfers, g, p)) <= 1
       /\ \A n \in (Len(rewardsManager.transfers) + 1)..Len(rewardsManager'.transfers) :
             LET t == rewardsManager'.transfers[n]
             IN  t.gameId # 0
                    => /\ t.sender = Owner
                       /\ t.gameId \in rewardsManager.gameResultsStored]_vars

\* batchDistributeRewards has run twice for game 1 whose winner A was paid,
\* and the balance would cover a second payment
C39_Witness ==
    /\ rewardsManager.distributed[1] = 2
    /\ Len(PaymentsFor(rewardsManager.transfers, 1, "A")) = 1
    /\ rewardsManager.balance >= PaymentsFor(rewardsManager.transfers, 1, "A")[1].amount

\* ======================================================================
\* Properties of the game ids
\* ======================================================================

\* C38: the k-th successful submitGameResult emits GameSubmitted with
\* gameId = k: the ids of the events emitted are 1, 2, ... in order, a step
\* emits at most one event and takes the next id exactly when it emits one,
\* so that a reverted submission takes none, and getTotalGames is the
\* number of events emitted.
C38_GameIdsCountEvents ==
    [][/\ getTotalGames' = Len(chainEvents')
       /\ \A k \in 1..Len(chainEvents') : chainEvents'[k].gameId = k
       /\ \/ currentGameId' = currentGameId /\ chainEvents' = chainEvents
          \/ /\ currentGameId' = currentGameId + 1
             /\ Len(chainEvents') = Len(chainEvents) + 1
             /\ SubSeq(chainEvents', 1, Len(chainEvents)) = chainEvents
       /\ history'.revertedSubmissions # history.revertedSubmissions
             => currentGameId' = currentGameId]_vars

\* a submission has succeeded, the next one was reverted and the one after
\* it has succeeded with the id 2
C38_Witness ==
    /\ history.revertedSubmissions = 1
    /\ Len(chainEvents) = 2
    /\ blockNumber = 3
    /\ chainEvents[1].blockNumber = 1 /\ chainEvents[2].blockNumber = 3

\* ======================================================================
\* Properties of POST /admin/submit-game
\* ======================================================================

\* C37: the gameId that POST /admin/submit-game returns, and uses for the
\* automatic rewards submission, is the id of the GameSubmitted event that
\* the request's own transaction emitted, also with two requests in flight.
C37_GameIdIsOwnEvent ==
    \A r \in Handlers :
        submit.reqs[r].pc \notin {"free", "awaitReceipt", "awaitTotalGames"}
            => submit.reqs[r].gameId = submit.reqs[r].txGameId

====
